---- MODULE Spec2Model ----
(***************************************************************************)
(* Verification model of videoToRISO's reconstruction core:                *)
(*   - the compact metadata codec (app/reconstruct/metadata.py),           *)
(*   - grid resolution (app/reconstruct/grid_detect.py),                   *)
(*   - frame extraction (app/reconstruct/extractor.py),                    *)
(*   - page and video assembly (app/reconstruct/assembler.py),             *)
(*   - RisoApp.run_reconstruction: page loop, assembly, export             *)
(*     (app/gui.py),                                                       *)
(*   - the threads of RisoApp: the reconstruction worker, the background   *)
(*     QR detection and its cache (app/gui.py),                            *)
(*   - the grid editor window (app/reconstruct/grid_editor.py),            *)
(*   - sheet generation: LayoutEngine.create_sheets (app/layout.py) and    *)
(*     the sheet loop of RisoApp.run_process (app/gui.py).                 *)
(*                                                                         *)
(* Text is a sequence of one-character strings.  An Optional[...] field is *)
(* a sequence of length 0 (None) or 1 (the value).  A float is a decimal   *)
(* <<n, k>> standing for n / 10^k with no trailing zero digit.             *)
(***************************************************************************)
EXTENDS Integers, Sequences, FiniteSets, TLC

VARIABLES
    \* ---- codec harness ----
    meta,        \* the SheetMetadata value handed to to_compact
    text,        \* the marker payload (encoder output, possibly damaged)
    damage,      \* number of damaging edits applied to text
    decoded,     \* outcome of SheetMetadata.from_compact(text)
    parsed,      \* outcome of MetadataDecoder._parse_metadata(text)
    \* ---- reconstruction run ----
    scan_paths,         \* number of scan files selected (RisoApp.scan_paths), one page each
    manual_grid_cells,  \* RisoApp.manual_grid_cells (None or list of page entries)
    page_counter,       \* run_reconstruction's page_counter
    scan_image,         \* the page image of the last processed page
    hints,              \* the arguments of the last GridDetector.detect call
    grid,               \* the DetectedGrid used for the last processed page
    detect_invoked,     \* whether GridDetector.detect ran for the last processed page
    page_entry,         \* the override entry found for the last processed page
    frames,             \* extract_frames' result for the last processed page
    border_crop,        \* FrameExtractor.border_crop
    ui_grid,            \* run_reconstruction's rows, cols before the page loop
    pc,                 \* position of the reconstruction worker
    \* ---- MultiPageAssembler ----
    pages,              \* MultiPageAssembler.pages: page number -> list of frames
    metadata,           \* MultiPageAssembler.metadata: page number -> metadata dict
    returned,           \* what the last assembler call returned or raised
    \* ---- VideoAssembler and its surroundings ----
    assembler_frames,   \* VideoAssembler.frames
    settings,           \* VideoAssembler.settings
    files,              \* the file system: path -> content
    writer,             \* the cv2.VideoWriter opened by the last export
    \* ---- end of the reconstruction run ----
    all_frames,         \* run_reconstruction's all_frames
    recon_outcome,      \* on_recon_success / on_recon_error as scheduled by the worker
    \* ---- threads of RisoApp ----
    btn_reconstruct,    \* state of the reconstruct button
    reconstruct_available, \* RECONSTRUCT_AVAILABLE: the reconstruct package imported
    runs,               \* run_reconstruction threads started so far
    after_queue,        \* callbacks scheduled with self.after(0, ...), not yet run
    handled,            \* completion callbacks the UI thread has run
    \* ---- scan selection and QR detection cache of RisoApp ----
    scan_selection,     \* number of the selection scan_paths holds (0: none made)
    qr_threads,         \* _detect_qr_metadata_async threads, by the selection they were started for
    cached_scan_processors, \* per cached ScanProcessor, the selection its file belongs to
    cached_qr_settings, \* the selection the cached settings were detected from
    ui_qr_from,         \* the detected settings last put into the UI: their selection, and the one current then
    run_used,           \* what run_reconstruction took from the cache
    \* ---- a session of GridEditorWindow ----
    editor,             \* the window's fields: current_page, page_cells, result_cells, rows, cols,
                        \* selected_frames, last_selected_frame, excluded_frames, confirmed
    excluded_on,        \* per page, the cell indices the user excluded while the page was shown
    toggles,            \* exclude/include toggles made so far
    \* ---- callers of the VideoAssembler page API ----
    call_log,           \* the add_frames and add_page calls made so far, with their arguments
    \* ---- a generation run: RisoApp.run_process and LayoutEngine.create_sheets ----
    gen,                \* what the run works on: number of frames, columns, size of the first frame
    layout_engine,      \* LayoutEngine.thumb_size and the locals of create_sheets
    sheet_run           \* the sheet loop of run_process: frame_start and the metadata written

codecVars == <<meta, text, damage, decoded, parsed>>
reconVars == <<scan_paths, manual_grid_cells, page_counter, scan_image, hints, grid,
               detect_invoked, page_entry, frames, border_crop, ui_grid, pc>>
pageLoopVars == <<scan_paths, manual_grid_cells, page_counter, scan_image, hints, grid,
                  detect_invoked, page_entry, frames, border_crop, ui_grid>>
pageVars == <<pages, metadata, returned>>
exportVars == <<assembler_frames, settings, files, writer>>
tailVars == <<all_frames, recon_outcome>>
uiVars == <<btn_reconstruct, reconstruct_available, runs, after_queue, handled>>
cacheVars == <<scan_selection, qr_threads, cached_scan_processors, cached_qr_settings,
               ui_qr_from, run_used>>
editorVars == <<editor, excluded_on, toggles>>
sheetVars == <<gen, layout_engine, sheet_run>>
vars == <<codecVars, reconVars, pageVars, exportVars, tailVars, uiVars, cacheVars, editorVars,
          call_log, sheetVars>>

-----------------------------------------------------------------------------
(* Generic helpers *)

None == <<>>
Some(v) == <<v>>
IsSet(o) == o # <<>>
Val(o) == o[1]

Min(a, b) == IF a <= b THEN a ELSE b
Max(a, b) == IF a >= b THEN a ELSE b
Abs(a) == IF a < 0 THEN -a ELSE a

RECURSIVE Pow10(_)
Pow10(k) == IF k = 0 THEN 1 ELSE 10 * Pow10(k - 1)

\* Python's truthiness of an Optional[int]: neither None nor 0
TruthyInt(o) == IsSet(o) /\ Val(o) # 0

-----------------------------------------------------------------------------
(* Python string primitives used by the codec *)

Digit == {"0", "1", "2", "3", "4", "5", "6", "7", "8", "9"}

DigitVal(c) ==
    CASE c = "0" -> 0 [] c = "1" -> 1 [] c = "2" -> 2 [] c = "3" -> 3
      [] c = "4" -> 4 [] c = "5" -> 5 [] c = "6" -> 6 [] c = "7" -> 7
      [] c = "8" -> 8 [] c = "9" -> 9

DigitChar(d) ==
    CASE d = 0 -> "0" [] d = 1 -> "1" [] d = 2 -> "2" [] d = 3 -> "3"
      [] d = 4 -> "4" [] d = 5 -> "5" [] d = 6 -> "6" [] d = 7 -> "7"
      [] d = 8 -> "8" [] d = 9 -> "9"

\* s[n:] for n >= 0
Drop(s, n) == IF n >= Len(s) THEN <<>> ELSE SubSeq(s, n + 1, Len(s))

\* s.startswith(c) for a one-character prefix
StartsWith(s, c) == Len(s) >= 1 /\ s[1] = c

\* c in s
Contains(s, c) == \E i \in 1..Len(s) : s[i] = c

\* s.split(sep): the list of the pieces between separators (never empty)
RECURSIVE SplitAcc(_, _, _, _)
SplitAcc(s, sep, i, cur) ==
    IF i > Len(s) THEN <<cur>>
    ELSE IF s[i] = sep THEN <<cur>> \o SplitAcc(s, sep, i + 1, <<>>)
    ELSE SplitAcc(s, sep, i + 1, Append(cur, s[i]))
Split(s, sep) == SplitAcc(s, sep, 1, <<>>)

\* "|".join(parts)
RECURSIVE Join(_, _)
Join(parts, sep) ==
    IF Len(parts) = 0 THEN <<>>
    ELSE IF Len(parts) = 1 THEN parts[1]
    ELSE parts[1] \o <<sep>> \o Join(Tail(parts), sep)

\* s.strip() restricted to the blank character
RECURSIVE StripL(_)
StripL(s) == IF Len(s) > 0 /\ s[1] = " " THEN StripL(Tail(s)) ELSE s
RECURSIVE StripR(_)
StripR(s) == IF Len(s) > 0 /\ s[Len(s)] = " " THEN StripR(SubSeq(s, 1, Len(s) - 1)) ELSE s
Strip(s) == StripR(StripL(s))

IsDigits(s) == Len(s) >= 1 /\ \A i \in 1..Len(s) : s[i] \in Digit

RECURSIVE DigitsVal(_)
DigitsVal(s) ==
    IF Len(s) = 0 THEN 0
    ELSE 10 * DigitsVal(SubSeq(s, 1, Len(s) - 1)) + DigitVal(s[Len(s)])

\* str(n) for a natural number
RECURSIVE NatToStr(_)
NatToStr(n) ==
    IF n < 10 THEN <<DigitChar(n)>>
    ELSE Append(NatToStr(n \div 10), DigitChar(n % 10))

\* str(n) / f"{n}" for an int
IntToStr(n) == IF n < 0 THEN <<"-">> \o NatToStr(-n) ELSE NatToStr(n)

\* int(s): blanks stripped, one optional sign, then decimal digits.
\* (Underscore grouping and non-ASCII digits are outside the model alphabet.)
\* Result: None when int() raises ValueError, Some(value) otherwise.
ParseInt(s) ==
    LET t == Strip(s)
        signed == Len(t) >= 1 /\ t[1] \in {"+", "-"}
        body == IF signed THEN Tail(t) ELSE t
    IN  IF ~IsDigits(body) THEN None
        ELSE IF signed /\ t[1] = "-" THEN Some(-DigitsVal(body))
        ELSE Some(DigitsVal(body))

\* a decimal n / 10^k without trailing zero digits
RECURSIVE NormDec(_, _)
NormDec(n, k) == IF k > 0 /\ n % 10 = 0 THEN NormDec(n \div 10, k - 1) ELSE <<n, k>>

\* float(s): blanks stripped, one optional sign, then "d+", "d+.d*" or ".d+".
\* (Exponents, inf and nan need letters outside the model alphabet.)
\* Result: None when float() raises ValueError, Some(<<n, k>>) otherwise.
ParseFloat(s) ==
    LET t == Strip(s)
        signed == Len(t) >= 1 /\ t[1] \in {"+", "-"}
        body == IF signed THEN Tail(t) ELSE t
        pieces == Split(body, ".")
        ip == pieces[1]
        fp == IF Len(pieces) = 2 THEN pieces[2] ELSE <<>>
        okShape == /\ Len(pieces) \in {1, 2}
                   /\ Len(ip) + Len(fp) >= 1
                   /\ \A i \in 1..Len(ip) : ip[i] \in Digit
                   /\ \A i \in 1..Len(fp) : fp[i] \in Digit
        mag == DigitsVal(ip \o fp)
    IN  IF ~okShape THEN None
        ELSE IF signed /\ t[1] = "-" THEN Some(NormDec(-mag, Len(fp)))
        ELSE Some(NormDec(mag, Len(fp)))

\* the decimal d rounded to tenths (ties to even), as a number of tenths
RoundTenths(d) ==
    LET n == Abs(d[1])
        k == d[2]
    IN  IF k <= 1 THEN n * Pow10(1 - k)
        ELSE LET unit == Pow10(k - 1)
                 q == n \div unit
                 r == n % unit
             IN  IF 2 * r > unit THEN q + 1
                 ELSE IF 2 * r < unit THEN q
                 ELSE IF q % 2 = 0 THEN q ELSE q + 1

\* f"{d:.1f}"
FormatFps(d) ==
    LET t == RoundTenths(d)
    IN  (IF d[1] < 0 THEN <<"-">> ELSE <<>>)
        \o NatToStr(t \div 10) \o <<".">> \o <<DigitChar(t % 10)>>

-----------------------------------------------------------------------------
(* SheetMetadata and its compact codec (metadata.py) *)

\* the dataclass constructor; the last three fields default to None
SheetMetadata(pn, tp, r, c, fs, fc, fps, cw, ch, m, sp, vh, res, ca) ==
    [page_number |-> pn, total_pages |-> tp, rows |-> r, cols |-> c,
     frame_start |-> fs, frame_count |-> fc, fps |-> fps,
     cell_width |-> cw, cell_height |-> ch, margin |-> m, spacing |-> sp,
     video_hash |-> vh, original_resolution |-> res, created_at |-> ca]

OptionalFields == {"fps", "cell_width", "cell_height", "margin", "spacing",
                   "video_hash", "original_resolution", "created_at"}
MandatoryFields == {"page_number", "total_pages", "rows", "cols",
                    "frame_start", "frame_count"}

\* the margin/spacing segment with Python truthiness in place of "is not None":
\* a fault that loses a margin or spacing of 0
MarginPart_truthy(x) ==
    IF TruthyInt(x.margin) /\ TruthyInt(x.spacing)
    THEN << <<"m">> \o IntToStr(Val(x.margin)) \o <<"s">> \o IntToStr(Val(x.spacing)) >>
    ELSE <<>>

\* to_compact's "if self.margin is not None and self.spacing is not None"
MarginPart(x) ==
    IF IsSet(x.margin) /\ IsSet(x.spacing)
    THEN << <<"m">> \o IntToStr(Val(x.margin)) \o <<"s">> \o IntToStr(Val(x.spacing)) >>
    ELSE <<>>

\* SheetMetadata.to_compact
to_compact(x) ==
    LET base == << <<"p">> \o IntToStr(x.page_number) \o <<"/">> \o IntToStr(x.total_pages),
                   <<"g">> \o IntToStr(x.rows) \o <<"x">> \o IntToStr(x.cols),
                   <<"f">> \o IntToStr(x.frame_start) \o <<"+">> \o IntToStr(x.frame_count) >>
        cpart == IF TruthyInt(x.cell_width) /\ TruthyInt(x.cell_height)
                 THEN << <<"c">> \o IntToStr(Val(x.cell_width)) \o <<"x">>
                         \o IntToStr(Val(x.cell_height)) >>
                 ELSE <<>>
        mpart == MarginPart(x)
        fpart == IF IsSet(x.fps) /\ Val(x.fps)[1] # 0
                 THEN << <<"@">> \o FormatFps(Val(x.fps)) >>
                 ELSE <<>>
    IN  Join(base \o cpart \o mpart \o fpart, "|")

\* Outcome of a decoding call: a SheetMetadata, None, or a raised exception
BlankMeta == SheetMetadata(0, 0, 0, 0, 0, 0, None, None, None, None, None, None, None, None)
Raised == [tag |-> "raise", md |-> BlankMeta]
ReturnedNone == [tag |-> "none", md |-> BlankMeta]
Returned(m) == [tag |-> "meta", md |-> m]
NotCalled == [tag |-> "idle", md |-> BlankMeta]

\* the loop over parts[3:] ending at the frame-rate part: a fault that makes
\* the parts behind "@" go unread
RECURSIVE OptionalParts_fps_last(_, _, _)
OptionalParts_fps_last(parts, i, acc) ==
    IF i > Len(parts) \/ ~acc.ok THEN acc
    ELSE LET part == parts[i]
             rest == Drop(part, 1)
         IN  IF StartsWith(part, "@") THEN
                 LET f == ParseFloat(rest)
                 IN  IF IsSet(f) THEN [acc EXCEPT !.fps = f]
                     ELSE [acc EXCEPT !.ok = FALSE]
             ELSE IF StartsWith(part, "c") THEN
                 LET dims == Split(rest, "x")
                     w == ParseInt(dims[1])
                     h == IF Len(dims) >= 2 THEN ParseInt(dims[2]) ELSE None
                 IN  OptionalParts_fps_last(parts, i + 1,
                        IF IsSet(w) /\ IsSet(h)
                        THEN [acc EXCEPT !.cell_width = w, !.cell_height = h]
                        ELSE [acc EXCEPT !.ok = FALSE])
             ELSE IF StartsWith(part, "m") THEN
                 LET ms_parts == Split(rest, "s")
                     mg == ParseInt(ms_parts[1])
                     sp == IF Len(ms_parts) >= 2 THEN ParseInt(ms_parts[2]) ELSE None
                 IN  OptionalParts_fps_last(parts, i + 1,
                        IF IsSet(mg) /\ IsSet(sp)
                        THEN [acc EXCEPT !.margin = mg, !.spacing = sp]
                        ELSE [acc EXCEPT !.ok = FALSE])
             ELSE OptionalParts_fps_last(parts, i + 1, acc)

\* the loop over parts[3:] of from_compact; acc.ok turns FALSE where the code raises
RECURSIVE OptionalParts(_, _, _)
OptionalParts(parts, i, acc) ==
    IF i > Len(parts) \/ ~acc.ok THEN acc
    ELSE LET part == parts[i]
             rest == Drop(part, 1)
         IN  IF StartsWith(part, "@") THEN
                 LET f == ParseFloat(rest)
                 IN  OptionalParts(parts, i + 1,
                        IF IsSet(f) THEN [acc EXCEPT !.fps = f]
                        ELSE [acc EXCEPT !.ok = FALSE])
             ELSE IF StartsWith(part, "c") THEN
                 LET dims == Split(rest, "x")
                     w == ParseInt(dims[1])
                     h == IF Len(dims) >= 2 THEN ParseInt(dims[2]) ELSE None
                 IN  OptionalParts(parts, i + 1,
                        IF IsSet(w) /\ IsSet(h)
                        THEN [acc EXCEPT !.cell_width = w, !.cell_height = h]
                        ELSE [acc EXCEPT !.ok = FALSE])
             ELSE IF StartsWith(part, "m") THEN
                 LET ms_parts == Split(rest, "s")
                     mg == ParseInt(ms_parts[1])
                     sp == IF Len(ms_parts) >= 2 THEN ParseInt(ms_parts[2]) ELSE None
                 IN  OptionalParts(parts, i + 1,
                        IF IsSet(mg) /\ IsSet(sp)
                        THEN [acc EXCEPT !.margin = mg, !.spacing = sp]
                        ELSE [acc EXCEPT !.ok = FALSE])
             ELSE OptionalParts(parts, i + 1, acc)

\* the optional fields defaulted to a frame rate of 24.0: a fault that makes
\* an absent fps look set
OptionalDefaults_fps24 ==
    [ok |-> TRUE, fps |-> Some(<<24, 0>>), cell_width |-> None,
     cell_height |-> None, margin |-> None, spacing |-> None]

\* from_compact's "fps = None ... spacing = None" before the loop
OptionalDefaults ==
    [ok |-> TRUE, fps |-> None, cell_width |-> None,
     cell_height |-> None, margin |-> None, spacing |-> None]

\* SheetMetadata.from_compact
from_compact(compact_str) ==
    LET parts == Split(compact_str, "|")
    IN  IF Len(parts) < 3 THEN Raised      \* IndexError on parts[1] or parts[2]
        ELSE
        LET pg == Split(Drop(parts[1], 1), "/")
            gr == Split(Drop(parts[2], 1), "x")
            fr == Split(Drop(parts[3], 1), "+")
        IN  IF Len(pg) # 2 \/ Len(gr) # 2 \/ Len(fr) # 2 THEN Raised  \* unpacking
            ELSE
            LET opt == OptionalParts(parts, 4, OptionalDefaults)
                page_num == ParseInt(pg[1])
                total == ParseInt(pg[2])
                rows == ParseInt(gr[1])
                cols == ParseInt(gr[2])
                frame_start == ParseInt(fr[1])
                frame_count == ParseInt(fr[2])
            IN  IF ~opt.ok THEN Raised
                ELSE IF \E v \in {page_num, total, rows, cols, frame_start, frame_count} :
                            ~IsSet(v) THEN Raised
                ELSE Returned(SheetMetadata(
                        Val(page_num), Val(total), Val(rows), Val(cols),
                        Val(frame_start), Val(frame_count),
                        opt.fps, opt.cell_width, opt.cell_height,
                        opt.margin, opt.spacing, None, None, None))

\* SheetMetadata.from_json: json.loads raises on every payload of the model,
\* none of which holds a closing brace.
from_json(json_str) == Raised

\* MetadataDecoder._parse_metadata without its try/except
parse_metadata_body(data) ==
    IF StartsWith(data, "p") /\ Contains(data, "|") THEN from_compact(data)
    ELSE IF StartsWith(data, "{") THEN from_json(data)
    ELSE ReturnedNone

\* _parse_metadata with its except clause left out: a fault that lets the
\* codec's exceptions reach decode_qr
parse_metadata_unguarded(data) == parse_metadata_body(data)

\* MetadataDecoder._parse_metadata
parse_metadata(data) ==
    LET r == parse_metadata_body(data)
    IN  IF r.tag = "raise" THEN ReturnedNone ELSE r

-----------------------------------------------------------------------------
(* MetadataDecoder.decode_qr (metadata.py) *)

\* the corner list with the top-left corner first: a fault that looks for
\* the marker in its placement corner last
corners_top_left_first == <<"top-left", "top-right", "bottom-left", "bottom-right">>

\* the list `corners` of decode_qr
corners == <<"bottom-right", "bottom-left", "top-right", "top-left">>

\* one detectAndDecode call: the region it looks at and how the region was prepared
Attempt(region, variant) == <<region, variant>>

\* the calls of the corner loop: each corner as cut out, then in grayscale
RECURSIVE CornerAttempts(_)
CornerAttempts(cs) ==
    IF cs = <<>> THEN <<>>
    ELSE <<Attempt(Head(cs), "raw"), Attempt(Head(cs), "grayscale")>>
         \o CornerAttempts(Tail(cs))

\* the calls of the fall-back on the whole image
FullImageAttempts ==
    <<Attempt("full", "raw"), Attempt("full", "grayscale"),
      Attempt("full", "otsu"), Attempt("full", "adaptive")>>

\* the detectAndDecode calls in turn, up to the first that returns data;
\* scene[a] is what the detector returns for attempt a (<<>>: nothing found)
RECURSIVE ScanAttempts(_, _, _, _)
ScanAttempts(scene, attempts, i, log) ==
    IF i > Len(attempts) THEN [attempts |-> log, data |-> <<>>]
    ELSE IF scene[attempts[i]] # <<>>
         THEN [attempts |-> Append(log, attempts[i]), data |-> scene[attempts[i]]]
         ELSE ScanAttempts(scene, attempts, i + 1, Append(log, attempts[i]))

\* MetadataDecoder.decode_qr: the calls made and the value returned
decode_qr(scene, cv2_available) ==
    IF ~cv2_available THEN [attempts |-> <<>>, data |-> <<>>, metadata |-> ReturnedNone]
    ELSE LET scan == ScanAttempts(scene, CornerAttempts(corners) \o FullImageAttempts, 1, <<>>)
         IN  [attempts |-> scan.attempts, data |-> scan.data,
              metadata |-> IF scan.data # <<>> THEN parse_metadata(scan.data)
                           ELSE ReturnedNone]

-----------------------------------------------------------------------------
(* Grid resolution (grid_detect.py) *)

\* int(num / den) for den > 0: Python's int() cuts towards zero
IntTrunc(num, den) == IF num >= 0 THEN num \div den ELSE -((-num) \div den)

GridCell(x, y, w, h, row, col) ==
    [x |-> x, y |-> y, width |-> w, height |-> h, row |-> row, col |-> col]

\* GridCell.bounds: (left, top, right, bottom)
bounds(cell) == <<cell.x, cell.y, cell.x + cell.width, cell.y + cell.height>>

DetectedGrid(cells, rows, cols, cw, ch, origin, sx, sy, fc) ==
    [cells |-> cells, rows |-> rows, cols |-> cols, cell_width |-> cw,
     cell_height |-> ch, origin |-> origin, spacing_x |-> sx, spacing_y |-> sy,
     frame_count |-> fc]

\* the nested "for row in range(rows): for col in range(cols)" loops that lay
\* out a uniform grid from (ox, oy) with the given cell size and pitch
UniformCells(rows, cols, ox, oy, cw, ch, pitch_x, pitch_y) ==
    IF rows <= 0 \/ cols <= 0 THEN <<>>
    ELSE [i \in 1..(rows * cols) |->
            GridCell(ox + ((i - 1) % cols) * pitch_x,
                     oy + ((i - 1) \div cols) * pitch_y,
                     cw, ch, (i - 1) \div cols, (i - 1) % cols)]

\* the sort key taken as (c.col, c.row): a fault that orders column by column
KeyLeq_colmajor(a, b) == a.col < b.col \/ (a.col = b.col /\ a.row <= b.row)

\* the key (c.row, c.col) of a is not after that of b
KeyLeq(a, b) == a.row < b.row \/ (a.row = b.row /\ a.col <= b.col)

\* sorted(cells, key=...): stable insertion of each element behind the
\* elements whose key is not greater
RECURSIVE InsertSorted(_, _)
InsertSorted(sorted, c) ==
    IF Len(sorted) = 0 THEN <<c>>
    ELSE IF KeyLeq(sorted[Len(sorted)], c) THEN Append(sorted, c)
    ELSE Append(InsertSorted(SubSeq(sorted, 1, Len(sorted) - 1), c), sorted[Len(sorted)])

RECURSIVE SortedCells(_)
SortedCells(cells) ==
    IF Len(cells) = 0 THEN <<>>
    ELSE InsertSorted(SortedCells(SubSeq(cells, 1, Len(cells) - 1)), cells[Len(cells)])

\* the slice s[:n]
SliceTo(s, n) ==
    IF n >= 0 THEN SubSeq(s, 1, Min(n, Len(s)))
    ELSE SubSeq(s, 1, Max(Len(s) + n, 0))

\* DetectedGrid.get_cells_in_order
get_cells_in_order(g) ==
    LET ordered == SortedCells(g.cells)
    IN  IF IsSet(g.frame_count) THEN SliceTo(ordered, Val(g.frame_count))
        ELSE ordered

\* the contour loop of refine_grid_with_contours for one cell: the bounding
\* box with the greatest overlap among those centred in the search window
\* and of similar area; None when there is no such box
RECURSIVE BestContour(_, _, _, _, _)
BestContour(cell, contours, i, best, max_overlap) ==
    IF i > Len(contours) THEN best
    ELSE
    LET x == contours[i][1]
        y == contours[i][2]
        w == contours[i][3]
        h == contours[i][4]
        pad_x == IntTrunc(cell.width * 2, 10)
        pad_y == IntTrunc(cell.height * 2, 10)
        search_x == Max(0, cell.x - pad_x)
        search_y == Max(0, cell.y - pad_y)
        search_w == cell.width + 2 * pad_x
        search_h == cell.height + 2 * pad_y
        cell_area == cell.width * cell.height
        cx == x + w \div 2
        cy == y + h \div 2
        area == w * h
        overlap_x == Max(0, Min(cell.x + cell.width, x + w) - Max(cell.x, x))
        overlap_y == Max(0, Min(cell.y + cell.height, y + h) - Max(cell.y, y))
        overlap_area == overlap_x * overlap_y
        accept == /\ cx >= search_x /\ cy >= search_y
                  /\ cx <= search_x + search_w /\ cy <= search_y + search_h
                  /\ cell_area < 2 * area /\ 2 * area < 3 * cell_area
                  /\ overlap_area > max_overlap
    IN  IF accept THEN BestContour(cell, contours, i + 1, Some(contours[i]), overlap_area)
        ELSE BestContour(cell, contours, i + 1, best, max_overlap)

\* the refinement keeping only the cells a contour was found for: a fault
\* that loses the cells whose prediction should have been kept
refine_grid_matched_only(image, g) ==
    IF image.cv_fails THEN g
    ELSE LET Matched(cell) == IsSet(BestContour(cell, image.contours, 1, None, 0))
             kept == SelectSeq(g.cells, Matched)
         IN  DetectedGrid(
                [i \in 1..Len(kept) |->
                    LET best == Val(BestContour(kept[i], image.contours, 1, None, 0))
                    IN  GridCell(best[1], best[2], best[3], best[4], kept[i].row, kept[i].col)],
                g.rows, g.cols, g.cell_width, g.cell_height, g.origin,
                g.spacing_x, g.spacing_y, g.frame_count)

\* GridDetector.refine_grid_with_contours; image.cv_fails stands for an
\* exception out of the OpenCV calls inside the try block
refine_grid_with_contours(image, g) ==
    IF image.cv_fails THEN g
    ELSE DetectedGrid(
            [i \in 1..Len(g.cells) |->
                LET cell == g.cells[i]
                    best == BestContour(cell, image.contours, 1, None, 0)
                IN  IF IsSet(best)
                    THEN GridCell(Val(best)[1], Val(best)[2], Val(best)[3], Val(best)[4],
                                  cell.row, cell.col)
                    ELSE cell],
            g.rows, g.cols, g.cell_width, g.cell_height, g.origin,
            g.spacing_x, g.spacing_y, g.frame_count)

\* initial_grid of detect_from_metadata (margin_percent 0.045, spacing_percent 0.012)
initial_grid_from_metadata(image, rows, cols, frame_count) ==
    LET width == image.width
        height == image.height
        content_bounds == image.content_bounds
        margin_x == IF IsSet(content_bounds) THEN Val(content_bounds)[1]
                    ELSE (width * 45) \div 1000
        margin_y == IF IsSet(content_bounds) THEN Val(content_bounds)[2]
                    ELSE (height * 45) \div 1000
        content_width == IF IsSet(content_bounds)
                         THEN Val(content_bounds)[3] - Val(content_bounds)[1]
                         ELSE width - 2 * margin_x
        content_height == IF IsSet(content_bounds)
                          THEN Val(content_bounds)[4] - Val(content_bounds)[2]
                          ELSE height - 2 * margin_y
        spacing_x == (width * 12) \div 1000
        spacing_y == (height * 12) \div 1000
        cell_width == (content_width - spacing_x * (cols - 1)) \div cols
        cell_height == (content_height - spacing_y * (rows - 1)) \div rows
        cells == UniformCells(rows, cols, margin_x, margin_y, cell_width, cell_height,
                              cell_width + spacing_x, cell_height + spacing_y)
    IN  DetectedGrid(cells, rows, cols, cell_width, cell_height,
                     <<margin_x, margin_y>>, spacing_x, spacing_y, frame_count)

\* GridDetector.detect_from_metadata
detect_from_metadata(image, rows, cols, frame_count) ==
    refine_grid_with_contours(image,
        initial_grid_from_metadata(image, rows, cols, frame_count))

\* greatest common divisor, for a scale factor in lowest terms
RECURSIVE GCD(_, _)
GCD(a, b) == IF b = 0 THEN a ELSE GCD(b, a % b)

\* initial_grid of detect_from_exact_layout.  A scale factor is the fraction
\* num / den; int(v * scale) is IntTrunc(v * num, den).  The averaged scale
\* is kept in lowest terms so that the products stay within the integers
\* of the model.
initial_grid_from_exact_layout(image, rows, cols, frame_count, cell_width, cell_height, margin, spacing) ==
    LET img_width == image.width
        img_height == image.height
        original_width == margin * 2 + cols * cell_width + (cols - 1) * spacing
        original_height == margin * 2 + rows * cell_height + (rows - 1) * spacing
        \* abs(scale_x - scale_y) < 0.1
        near == 10 * Abs(img_width * original_height - img_height * original_width)
                    < original_width * original_height
        sum_num == img_width * original_height + img_height * original_width
        sum_den == 2 * original_width * original_height
        avg_num == sum_num \div GCD(sum_num, sum_den)
        avg_den == sum_den \div GCD(sum_num, sum_den)
        sx_num == IF near THEN avg_num ELSE img_width
        sx_den == IF near THEN avg_den ELSE original_width
        sy_num == IF near THEN avg_num ELSE img_height
        sy_den == IF near THEN avg_den ELSE original_height
        scaled_margin_x == IntTrunc(margin * sx_num, sx_den)
        scaled_margin_y == IntTrunc(margin * sy_num, sy_den)
        scaled_cell_width == IntTrunc(cell_width * sx_num, sx_den)
        scaled_cell_height == IntTrunc(cell_height * sy_num, sy_den)
        scaled_spacing_x == IntTrunc(spacing * sx_num, sx_den)
        scaled_spacing_y == IntTrunc(spacing * sy_num, sy_den)
        cells == UniformCells(rows, cols, scaled_margin_x, scaled_margin_y,
                              scaled_cell_width, scaled_cell_height,
                              scaled_cell_width + scaled_spacing_x,
                              scaled_cell_height + scaled_spacing_y)
    IN  DetectedGrid(cells, rows, cols, scaled_cell_width, scaled_cell_height,
                     <<scaled_margin_x, scaled_margin_y>>,
                     scaled_spacing_x, scaled_spacing_y, frame_count)

\* GridDetector.detect_from_exact_layout
detect_from_exact_layout(image, rows, cols, frame_count, cell_width, cell_height, margin, spacing) ==
    refine_grid_with_contours(image,
        initial_grid_from_exact_layout(image, rows, cols, frame_count,
                                       cell_width, cell_height, margin, spacing))

\* GridDetector.detect_by_content.  image.grid_region, image.content_bounds and
\* image.profile are what _find_grid_region, _detect_content_bounds and
\* _analyze_projection_profiles report for the image.
detect_by_content(image) ==
    LET region == IF IsSet(image.grid_region) THEN image.grid_region
                  ELSE image.content_bounds
        left == IF IsSet(region) THEN Val(region)[1] ELSE 0
        top == IF IsSet(region) THEN Val(region)[2] ELSE 0
        shape_w == IF IsSet(region) THEN Val(region)[3] - Val(region)[1] ELSE image.width
        shape_h == IF IsSet(region) THEN Val(region)[4] - Val(region)[2] ELSE image.height
        found == image.profile[1] # 0 /\ image.profile[2] # 0
        rows == IF found THEN image.profile[1] ELSE 6
        cols == IF found THEN image.profile[2] ELSE 5
        cell_h == shape_h \div rows
        cell_w == shape_w \div cols
    IN  DetectedGrid(UniformCells(rows, cols, left, top, cell_w, cell_h, cell_w, cell_h),
                     rows, cols, cell_w, cell_h, <<left, top>>, 0, 0, None)

Hints(method, rows, cols, frame_count, cell_width, cell_height, margin, spacing) ==
    [method |-> method, rows |-> rows, cols |-> cols, frame_count |-> frame_count,
     cell_width |-> cell_width, cell_height |-> cell_height,
     margin |-> margin, spacing |-> spacing]

\* detect with the margin and spacing hints tested for truthiness: a fault
\* that sends a layout with a margin or spacing of 0 to the percentage estimate
detect_margin_truthy(image, h) ==
    IF h.method = "manual" /\ TruthyInt(h.rows) /\ TruthyInt(h.cols)
    THEN IF /\ TruthyInt(h.cell_width) /\ TruthyInt(h.cell_height)
            /\ TruthyInt(h.margin) /\ TruthyInt(h.spacing)
         THEN detect_from_exact_layout(image, Val(h.rows), Val(h.cols), h.frame_count,
                                       Val(h.cell_width), Val(h.cell_height),
                                       Val(h.margin), Val(h.spacing))
         ELSE detect_from_metadata(image, Val(h.rows), Val(h.cols), h.frame_count)
    ELSE detect_by_content(image)

\* GridDetector.detect
detect(image, h) ==
    IF h.method = "manual" /\ TruthyInt(h.rows) /\ TruthyInt(h.cols)
    THEN IF /\ TruthyInt(h.cell_width) /\ TruthyInt(h.cell_height)
            /\ IsSet(h.margin) /\ IsSet(h.spacing)
         THEN detect_from_exact_layout(image, Val(h.rows), Val(h.cols), h.frame_count,
                                       Val(h.cell_width), Val(h.cell_height),
                                       Val(h.margin), Val(h.spacing))
         ELSE detect_from_metadata(image, Val(h.rows), Val(h.cols), h.frame_count)
    ELSE detect_by_content(image)

-----------------------------------------------------------------------------
(* Frame extraction (extractor.py) *)

\* PIL's Image.crop: a box whose right or bottom lies before its left or top
\* is rejected with ValueError
Crop(l, t, r, b, cell) ==
    IF r < l \/ b < t
    THEN [kind |-> "raise", box |-> <<l, t, r, b>>, size |-> <<0, 0>>,
          row |-> cell.row, col |-> cell.col]
    ELSE [kind |-> "crop", box |-> <<l, t, r, b>>, size |-> <<r - l, b - t>>,
          row |-> cell.row, col |-> cell.col]

\* Image.new('RGB', (10, 10), color=(128, 128, 128))
Placeholder(cell) ==
    [kind |-> "placeholder", box |-> <<0, 0, 0, 0>>, size |-> <<10, 10>>,
     row |-> cell.row, col |-> cell.col]

\* _extract_cell without the "right = left + 1", "bottom = top + 1" repair:
\* a fault that hands PIL an empty or inverted box
extract_cell_unrepaired(image, cell, crop_px) ==
    LET b0 == bounds(cell)
        left1 == IF crop_px > 0 THEN b0[1] + crop_px ELSE b0[1]
        top1 == IF crop_px > 0 THEN b0[2] + crop_px ELSE b0[2]
        right1 == IF crop_px > 0 THEN b0[3] - crop_px ELSE b0[3]
        bottom1 == IF crop_px > 0 THEN b0[4] - crop_px ELSE b0[4]
        left == Max(0, left1)
        top == Max(0, top1)
        right == Min(image.width, right1)
        bottom == Min(image.height, bottom1)
    IN  IF left >= image.width \/ top >= image.height THEN Placeholder(cell)
        ELSE Crop(left, top, right, bottom, cell)

\* FrameExtractor._extract_cell
extract_cell(image, cell, crop_px) ==
    LET b0 == bounds(cell)
        left1 == IF crop_px > 0 THEN b0[1] + crop_px ELSE b0[1]
        top1 == IF crop_px > 0 THEN b0[2] + crop_px ELSE b0[2]
        right1 == IF crop_px > 0 THEN b0[3] - crop_px ELSE b0[3]
        bottom1 == IF crop_px > 0 THEN b0[4] - crop_px ELSE b0[4]
        left == Max(0, left1)
        top == Max(0, top1)
        right2 == Min(image.width, right1)
        bottom2 == Min(image.height, bottom1)
        right == IF right2 <= left THEN left + 1 ELSE right2
        bottom == IF bottom2 <= top THEN top + 1 ELSE bottom2
    IN  IF left >= image.width \/ top >= image.height THEN Placeholder(cell)
        ELSE Crop(left, top, right, bottom, cell)

\* FrameExtractor._post_process with sharpen off and RISO colours preserved:
\* the filters change pixel values only, never the frame's size or source
post_process(frame) == frame

\* FrameExtractor.extract_frames without perspective corners (the way
\* run_reconstruction calls it); raised is TRUE where a cell's crop raises
extract_frames(image, g, crop_px) ==
    LET cells_ordered == get_cells_in_order(g)
        out == [i \in 1..Len(cells_ordered) |->
                  post_process(extract_cell(image, cells_ordered[i], crop_px))]
    IN  IF \E i \in 1..Len(out) : out[i].kind = "raise"
        THEN [raised |-> TRUE, frames |-> <<>>]
        ELSE [raised |-> FALSE, frames |-> out]

NotExtracted == [raised |-> FALSE, frames |-> <<>>]

-----------------------------------------------------------------------------
(* The manual grid editor's hand-over (grid_editor.py) *)

\* GridEditorWindow._calculate_cells for an integer grid rectangle:
\* (x1, y1, x2, y2) of every cell, row by row
calculate_cells(rect, rows, cols, spacing) ==
    LET x1 == rect[1]
        y1 == rect[2]
        gw == rect[3] - rect[1] - (cols - 1) * spacing
        gh == rect[4] - rect[2] - (rows - 1) * spacing
    IN  [i \in 1..(rows * cols) |->
            LET row == (i - 1) \div cols
                col == (i - 1) % cols
                nx == x1 * cols + col * (gw + cols * spacing)
                ny == y1 * rows + row * (gh + rows * spacing)
            IN  <<IntTrunc(nx, cols), IntTrunc(ny, rows),
                  IntTrunc(nx + gw, cols), IntTrunc(ny + gh, rows)>>]

\* the loop body of get_result for one page: the (x, y, w, h) tuples of the
\* cells whose index is not excluded, and the excluded indices
RECURSIVE CellTuples(_, _, _)
CellTuples(cells, excluded, i) ==
    IF i > Len(cells) THEN <<>>
    ELSE IF (i - 1) \in excluded THEN CellTuples(cells, excluded, i + 1)
    ELSE << <<cells[i][1], cells[i][2], cells[i][3] - cells[i][1],
              cells[i][4] - cells[i][2]>> >> \o CellTuples(cells, excluded, i + 1)

\* GridEditorWindow.get_result once confirmed: one entry per page that has
\* cells; page_cells[p] is None for a page without a grid
RECURSIVE get_result_from(_, _, _, _, _, _)
get_result_from(page_cells, excluded_frames, rows, cols, spacing, page_idx) ==
    IF page_idx >= Len(page_cells) THEN <<>>
    ELSE LET cells == page_cells[page_idx + 1]
             rest == get_result_from(page_cells, excluded_frames, rows, cols,
                                     spacing, page_idx + 1)
         IN  IF IsSet(cells)
             THEN << [page_index |-> page_idx,
                      cells |-> CellTuples(Val(cells), excluded_frames, 1),
                      rows |-> rows, cols |-> cols, spacing |-> spacing,
                      excluded_indices |->
                          {i \in excluded_frames : i < Len(Val(cells))}] >> \o rest
             ELSE rest

get_result(page_cells, excluded_frames, rows, cols, spacing) ==
    LET result == get_result_from(page_cells, excluded_frames, rows, cols, spacing, 0)
    IN  IF Len(result) > 0 THEN Some(result) ELSE None

-----------------------------------------------------------------------------
(* RisoApp.run_reconstruction: grid choice for one page (gui.py) *)

\* the lookup loop over self.manual_grid_cells: the first entry whose
\* page_index is the page counter
RECURSIVE FindEntry(_, _, _)
FindEntry(list, counter, i) ==
    IF i > Len(list) THEN None
    ELSE IF list[i].page_index = counter THEN Some(list[i])
    ELSE FindEntry(list, counter, i + 1)

LookupManual(mgc, counter) ==
    IF IsSet(mgc) /\ Len(Val(mgc)) > 0 THEN FindEntry(Val(mgc), counter, 1) ELSE None

RECURSIVE SumOf(_, _)
SumOf(cells, field) ==
    IF Len(cells) = 0 THEN 0 ELSE cells[1][field] + SumOf(Tail(cells), field)

MinOf(cells, field) ==
    CHOOSE v \in {cells[i][field] : i \in 1..Len(cells)} :
        \A i \in 1..Len(cells) : v <= cells[i][field]

\* the DetectedGrid built from an override entry's rectangles
manual_grid(entry) ==
    LET num_rows == entry.rows
        num_cols == entry.cols
        manual_cells == entry.cells
        grid_cells == [i \in 1..Len(manual_cells) |->
                          GridCell(manual_cells[i][1], manual_cells[i][2],
                                   manual_cells[i][3], manual_cells[i][4],
                                   (i - 1) \div num_cols, (i - 1) % num_cols)]
        n == Len(grid_cells)
    IN  IF n > 0
        THEN DetectedGrid(grid_cells, num_rows, num_cols,
                          SumOf(grid_cells, "width") \div n,
                          SumOf(grid_cells, "height") \div n,
                          <<MinOf(grid_cells, "x"), MinOf(grid_cells, "y")>>,
                          0, 0, Some(n))
        ELSE DetectedGrid(grid_cells, num_rows, num_cols, 100, 100, <<0, 0>>,
                          0, 0, Some(0))

\* "a or b" on Optional[int] values
OrElse(a, b) == IF TruthyInt(a) THEN a ELSE b

\* the hints run_reconstruction hands to GridDetector.detect for a page with
\* page metadata md (None when the page has no marker) and run-wide rows, cols
PageHints(md, rows, cols, manual_mode) ==
    LET page_rows == IF IsSet(md) THEN OrElse(Some(Val(md).rows), rows) ELSE rows
        page_cols == IF IsSet(md) THEN OrElse(Some(Val(md).cols), cols) ELSE cols
    IN  IF TruthyInt(page_rows) /\ TruthyInt(page_cols)
        THEN Hints("manual", page_rows, page_cols,
                   IF IsSet(md) THEN Some(Val(md).frame_count) ELSE None,
                   IF IsSet(md) THEN Val(md).cell_width ELSE None,
                   IF IsSet(md) THEN Val(md).cell_height ELSE None,
                   IF IsSet(md) THEN Val(md).margin ELSE None,
                   IF IsSet(md) THEN Val(md).spacing ELSE None)
        ELSE IF manual_mode /\ TruthyInt(rows) /\ TruthyInt(cols)
        THEN Hints("manual", rows, cols, None, None, None, None, None)
        ELSE Hints("auto", None, None, None, None, None, None, None)

\* whether the page takes the manual branch: "if manual_cells and manual_grid_info"
UsesManual(found) == IsSet(found) /\ Len(Val(found).cells) > 0

-----------------------------------------------------------------------------
(* Codec harness: encode a metadata value, damage the payload as printing *)
(* and scanning may, decode it.                                           *)

\* the values the harness draws SheetMetadata fields from
FpsValues == {None, Some(<<0, 0>>), Some(<<12, 0>>), Some(<<23976, 3>>)}
CellWidthValues == {None, Some(0), Some(400)}
CellHeightValues == {None, Some(300)}
MarginValues == {None, Some(0), Some(150)}
SpacingValues == {None, Some(30)}
VideoHashValues == {None, Some("3fa9c1d20b7e")}
ResolutionValues == {None, Some(<<640, 480>>)}
CreatedAtValues == {None, Some("2024-05-01")}

MetaSet ==
    { SheetMetadata(2, 3, 4, 6, 24, 23, fps, cw, ch, m, sp, vh, res, ca) :
        fps \in FpsValues, cw \in CellWidthValues, ch \in CellHeightValues,
        m \in MarginValues, sp \in SpacingValues, vh \in VideoHashValues,
        res \in ResolutionValues, ca \in CreatedAtValues }

\* the sheets whose printed marker the scan side reads
ScanMetaSet ==
    { SheetMetadata(2, 3, 4, 6, 24, 23, None, None, None, None, None, None, None, None),
      SheetMetadata(1, 1, 2, 3, 0, 5, Some(<<12, 0>>), Some(40), Some(30),
                    Some(0), Some(3), None, None, None) }

\* characters a damaged marker may show in place of the printed one
DamageChars == {"|", "q", "-", " ", "{"}
\* segments a foreign or damaged marker may carry after the encoded ones
ExtraSegments == {<<"z", "9">>, <<"c", "7">>, <<"@">>, <<"@", "2", "5">>, <<"m", "0", "s", "0">>}
\* number of damaging edits per payload
MaxDamage == 1

\* MetadataEncoder.add_qr_code with use_compact: data = metadata.to_compact()
Encode ==
    /\ damage = -1
    /\ text' = to_compact(meta)
    /\ damage' = 0
    /\ UNCHANGED <<meta, decoded, parsed>>

\* one character of the payload is misread
DamageChar ==
    /\ damage >= 0 /\ damage < MaxDamage
    /\ decoded.tag = "idle" /\ parsed.tag = "idle"
    /\ \E i \in 1..Len(text), c \in DamageChars :
          /\ text[i] # c
          /\ text' = [text EXCEPT ![i] = c]
    /\ damage' = damage + 1
    /\ UNCHANGED <<meta, decoded, parsed>>

\* the payload is cut short
Truncate ==
    /\ damage >= 0 /\ damage < MaxDamage
    /\ decoded.tag = "idle" /\ parsed.tag = "idle"
    /\ \E k \in 0..(Len(text) - 1) : text' = SubSeq(text, 1, k)
    /\ damage' = damage + 1
    /\ UNCHANGED <<meta, decoded, parsed>>

\* the payload carries a further segment
AppendSegment ==
    /\ damage >= 0 /\ damage < MaxDamage
    /\ decoded.tag = "idle" /\ parsed.tag = "idle"
    /\ \E seg \in ExtraSegments : text' = text \o <<"|">> \o seg
    /\ damage' = damage + 1
    /\ UNCHANGED <<meta, decoded, parsed>>

\* a caller invokes SheetMetadata.from_compact(text)
FromCompact ==
    /\ damage >= 0
    /\ decoded.tag = "idle" /\ parsed.tag = "idle"
    /\ decoded' = from_compact(text)
    /\ UNCHANGED <<meta, text, damage, parsed>>

\* decode_qr hands the payload to MetadataDecoder._parse_metadata(text)
ParseMetadata ==
    /\ damage >= 0
    /\ decoded.tag = "idle" /\ parsed.tag = "idle"
    /\ parsed' = parse_metadata(text)
    /\ UNCHANGED <<meta, text, damage, decoded>>

-----------------------------------------------------------------------------
(* MultiPageAssembler (assembler.py) *)

\* sorted(keys): the ascending list of a finite set of integers
RECURSIVE sorted(_)
sorted(S) ==
    IF S = {} THEN <<>>
    ELSE LET least == CHOOSE p \in S : \A q \in S : p <= q
         IN  <<least>> \o sorted(S \ {least})

\* dict[key] = value
SetItem(d, key, value) ==
    [k \in DOMAIN d \cup {key} |-> IF k = key THEN value ELSE d[k]]

\* the page number add_page stores under: max(self.pages.keys(), default=0) + 1
\* when none is given
assigned_page(pgs, page_number) ==
    IF IsSet(page_number) THEN Val(page_number)
    ELSE (IF DOMAIN pgs = {} THEN 0
          ELSE CHOOSE p \in DOMAIN pgs : \A q \in DOMAIN pgs : q <= p) + 1

\* validate_continuity with the expected range started at page 1 whatever
\* the first stored page is: a fault that reports pages before the first
\* stored one as missing
validate_continuity_from_one(pgs) ==
    IF DOMAIN pgs = {} THEN <<TRUE, <<>> >>
    ELSE LET page_nums == sorted(DOMAIN pgs)
             expected == sorted(1..page_nums[Len(page_nums)])
             missing == SelectSeq(expected, LAMBDA p : p \notin DOMAIN pgs)
         IN  <<Len(missing) = 0, missing>>

\* MultiPageAssembler.validate_continuity
validate_continuity(pgs) ==
    IF DOMAIN pgs = {} THEN <<TRUE, <<>> >>
    ELSE LET page_nums == sorted(DOMAIN pgs)
             expected == sorted(page_nums[1]..page_nums[Len(page_nums)])
             missing == SelectSeq(expected, LAMBDA p : p \notin DOMAIN pgs)
         IN  <<Len(missing) = 0, missing>>

\* all_frames.extend(self.pages[page_num]) over page_nums[i..]
RECURSIVE ExtendAll(_, _, _)
ExtendAll(pgs, page_nums, i) ==
    IF i > Len(page_nums) THEN <<>>
    ELSE pgs[page_nums[i]] \o ExtendAll(pgs, page_nums, i + 1)

\* MultiPageAssembler.assemble
assemble(pgs) ==
    IF DOMAIN pgs = {} THEN <<>> ELSE ExtendAll(pgs, sorted(DOMAIN pgs), 1)

\* MultiPageAssembler.get_frame_count
RECURSIVE get_frame_count(_)
get_frame_count(pgs) ==
    IF DOMAIN pgs = {} THEN 0
    ELSE LET p == CHOOSE q \in DOMAIN pgs : TRUE
         IN  Len(pgs[p]) + get_frame_count([k \in DOMAIN pgs \ {p} |-> pgs[k]])

-----------------------------------------------------------------------------
(* VideoAssembler (assembler.py).  A frame is its pixel size and the sheet   *)
(* it was cut from; a float is a decimal <<n, k>>; a rate or a length of     *)
(* time that need not be a decimal is a fraction <<numerator, denominator>>. *)
(* Floating-point rounding is not modelled: the hold times drawn below are   *)
(* exact in binary.                                                          *)

\* Python's truthiness of an Optional[float]: neither None nor 0.0
TruthyFloat(o) == IsSet(o) /\ Val(o)[1] # 0

\* a decimal as a fraction
Frac(d) == <<d[1], Pow10(d[2])>>
FracEq(a, b) == a[1] * b[2] = b[1] * a[2]

Frame(sheet, w, h) == [sheet |-> sheet, size |-> <<w, h>>]

\* VideoSettings(fps, frame_duration, resolution); maintain_aspect is left
\* at its default
VideoSettings(fps, frame_duration, resolution) ==
    [fps |-> fps, frame_duration |-> frame_duration, resolution |-> resolution,
     maintain_aspect |-> TRUE]

\* VideoSettings()
DefaultSettings == VideoSettings(<<24, 0>>, None, None)

\* a path: directory, file stem, for a numbered file <<number, digits>>, extension
Path(dir, stem, number, ext) == [dir |-> dir, stem |-> stem, number |-> number, ext |-> ext]

\* a file: what it is, whether it carries an audio track, the frame rate it
\* plays at, and the pictures it shows with the number of times each was written
File(kind, audio, rate, shown) == [kind |-> kind, audio |-> audio, rate |-> rate, shown |-> shown]

AudioFile == File("audio", TRUE, <<0, 1>>, <<>>)
Directory == File("dir", FALSE, <<0, 1>>, <<>>)

\* del dict[key]
DelItem(d, key) == [k \in DOMAIN d \ {key} |-> d[k]]

NoWriter == [opened |-> FALSE, path |-> Path("", "", None, ""), codec |-> "",
             rate |-> <<0, 1>>, size |-> <<0, 0>>]

\* a picture as handed to a writer: the canvas size and the area of the
\* canvas the frame fills
Picture(size, area) == [size |-> size, area |-> area]

\* VideoAssembler._resize_frame: fit inside width x height and centre on a
\* black canvas, or stretch when maintain_aspect is off
resize_frame(frame, width, height, maintain_aspect) ==
    LET fw == frame.size[1]
        fh == frame.size[2]
    IN  IF maintain_aspect
        THEN IF width * fh <= height * fw
             THEN Picture(<<width, height>>, <<width, (fh * width) \div fw>>)
             ELSE Picture(<<width, height>>, <<(fw * height) \div fh, height>>)
        ELSE Picture(<<width, height>>, <<width, height>>)

\* the CODECS lookup on the lower-cased extension
codec_for(ext) == IF ext = "avi" THEN "XVID" ELSE "mp4v"

\* _add_audio with the original video removed before ffmpeg's return code is
\* looked at: a fault that leaves no video behind when ffmpeg fails
add_audio_remove_first(fs, video_path, audio_path, ffmpeg) ==
    LET output_path == Path(video_path.dir, video_path.stem \o "_with_audio",
                            video_path.number, video_path.ext)
        muxed == File("video", TRUE, fs[video_path].rate, fs[video_path].shown)
    IN  CASE ffmpeg = "ok" ->
                 [value |-> video_path,
                  files |-> SetItem(DelItem(fs, output_path), video_path, muxed)]
          [] ffmpeg = "partial" ->
                 [value |-> video_path,
                  files |-> SetItem(DelItem(fs, video_path), output_path,
                                    File("video", FALSE, <<0, 1>>, <<>>))]
          [] OTHER -> [value |-> video_path, files |-> DelItem(fs, video_path)]

\* VideoAssembler._add_audio.  ffmpeg is what subprocess.run does: "ok"
\* (return code 0, output written), "failed" (non-zero return code, nothing
\* written), "partial" (non-zero return code, a broken output left behind),
\* "not_found" (FileNotFoundError), "error" (any other exception)
add_audio(fs, video_path, audio_path, ffmpeg) ==
    LET output_path == Path(video_path.dir, video_path.stem \o "_with_audio",
                            video_path.number, video_path.ext)
        muxed == File("video", TRUE, fs[video_path].rate, fs[video_path].shown)
    IN  CASE ffmpeg = "ok" ->
                 \* os.remove(video_path); os.rename(output_path, video_path)
                 [value |-> video_path,
                  files |-> SetItem(DelItem(fs, output_path), video_path, muxed)]
          [] ffmpeg = "partial" ->
                 [value |-> video_path,
                  files |-> SetItem(fs, output_path, File("video", FALSE, <<0, 1>>, <<>>))]
          [] OTHER -> [value |-> video_path, files |-> fs]

\* what a call without side effects leaves behind
Result(raised, value) == [raised |-> raised, value |-> value]

\* what a call leaves behind: the exception raised ("" when none), the value
\* returned, the file system, the video writer
Outcome(raised, value, fs, w) == [raised |-> raised, value |-> value, files |-> fs, writer |-> w]

\* VideoAssembler.export(output_path, fps, audio_path); opened is what
\* writer.isOpened() answers
export(fr, st, fs, output_path, fps_arg, audio_path, opened, ffmpeg) ==
    IF fr = <<>> THEN Outcome("ValueError", None, fs, NoWriter)
    ELSE
    LET fps == IF TruthyFloat(fps_arg) THEN Val(fps_arg) ELSE st.fps
        size == IF IsSet(st.resolution) THEN Val(st.resolution) ELSE fr[1].size
        held == TruthyFloat(st.frame_duration)
        hold == Val(st.frame_duration)
        effective_fps == IF held THEN <<Pow10(hold[2]), hold[1]>> ELSE Frac(fps)
        w == [opened |-> opened, path |-> output_path, codec |-> codec_for(output_path.ext),
              rate |-> effective_fps, size |-> size]
        repeat_count == Max(1, (fps[1] * hold[1]) \div Pow10(fps[2] + hold[2]))
        shown == [i \in 1..Len(fr) |->
                    [picture |-> IF fr[i].size # size
                                 THEN resize_frame(fr[i], size[1], size[2], st.maintain_aspect)
                                 ELSE Picture(fr[i].size, fr[i].size),
                     times |-> IF held /\ fps[1] # 0 THEN repeat_count ELSE 1]]
        written == SetItem(fs, output_path, File("video", FALSE, effective_fps, shown))
    IN  IF ~opened THEN Outcome("RuntimeError", None, fs, w)
        ELSE IF IsSet(audio_path) /\ Val(audio_path) \in DOMAIN written
             THEN LET muxed == add_audio(written, output_path, Val(audio_path), ffmpeg)
                  IN  Outcome("", muxed.value, muxed.files, w)
             ELSE Outcome("", output_path, written, w)

\* VideoAssembler.export_gif(output_path, fps); the default palette options
export_gif(fr, st, fs, output_path, fps_arg) ==
    IF fr = <<>> THEN Outcome("ValueError", None, fs, NoWriter)
    ELSE
    LET fps == IF TruthyFloat(fps_arg) THEN Val(fps_arg) ELSE st.fps
        held == TruthyFloat(st.frame_duration)
        hold == Val(st.frame_duration)
        \* milliseconds per frame
        duration == IF held THEN (hold[1] * 1000) \div Pow10(hold[2])
                    ELSE (1000 * Pow10(fps[2])) \div fps[1]
        shown == [i \in 1..Len(fr) |->
                    [picture |-> IF IsSet(st.resolution)
                                 THEN resize_frame(fr[i], Val(st.resolution)[1],
                                                   Val(st.resolution)[2], st.maintain_aspect)
                                 ELSE Picture(fr[i].size, fr[i].size),
                     times |-> 1]]
    IN  IF fps[1] = 0 THEN Outcome("ZeroDivisionError", None, fs, NoWriter)
        ELSE Outcome("", output_path,
                     SetItem(fs, output_path, File("gif", FALSE, <<1000, duration>>, shown)),
                     NoWriter)

\* number of decimal digits of a natural number: len(str(n))
RECURSIVE NumDigits(_)
NumDigits(n) == IF n < 10 THEN 1 ELSE 1 + NumDigits(n \div 10)

\* export_image_sequence with the directory made before the frame list is
\* looked at: a fault that leaves an empty directory behind the error
export_image_sequence_mkdir_first(fr, st, fs, output_dir, start_number) ==
    LET made == SetItem(fs, Path(output_dir, "", None, ""), Directory)
    IN  IF fr = <<>> THEN Outcome("ValueError", None, made, NoWriter)
        ELSE Outcome("", <<>>, made, NoWriter)

\* VideoAssembler.export_image_sequence(output_dir) with the default prefix
\* and format: the directory is made, every frame is saved under its number
export_image_sequence(fr, st, fs, output_dir, start_number) ==
    IF fr = <<>> THEN Outcome("ValueError", None, fs, NoWriter)
    ELSE LET made == SetItem(fs, Path(output_dir, "", None, ""), Directory)
             num_digits == NumDigits(Len(fr) + start_number)
             paths == [i \in 1..Len(fr) |->
                         Path(output_dir, "frame", Some(<<start_number + i - 1, num_digits>>), "png")]
             saved(i) ==
                 LET picture == IF IsSet(st.resolution)
                                THEN resize_frame(fr[i], Val(st.resolution)[1],
                                                  Val(st.resolution)[2], st.maintain_aspect)
                                ELSE Picture(fr[i].size, fr[i].size)
                 IN  File("image", FALSE, <<0, 1>>, <<[picture |-> picture, times |-> 1]>>)
             written == [p \in DOMAIN made \cup {paths[i] : i \in 1..Len(fr)} |->
                           IF \E i \in 1..Len(fr) : paths[i] = p
                           THEN saved(CHOOSE i \in 1..Len(fr) : paths[i] = p)
                           ELSE made[p]]
         IN  Outcome("", paths, written, NoWriter)

\* the dict get_info returns; a key that is absent is None here.  The
\* formatted duration, a rendering of duration, is left out.
Info(frame_count, width, height, fps, duration) ==
    [frame_count |-> frame_count, width |-> width, height |-> height, fps |-> fps,
     duration |-> duration]

\* get_info with the frame count multiplied by the frame rate: a fault
get_info_times_fps(fr, st) ==
    IF fr = <<>> THEN Result("", Info(0, None, None, None, None))
    ELSE LET hold == Val(st.frame_duration)
             duration == IF TruthyFloat(st.frame_duration)
                         THEN <<Len(fr) * hold[1], Pow10(hold[2])>>
                         ELSE <<Len(fr) * st.fps[1], Pow10(st.fps[2])>>
         IN  Result("", Info(Len(fr), Some(fr[1].size[1]), Some(fr[1].size[2]),
                              Some(st.fps), Some(duration)))

\* VideoAssembler.get_info; duration is a fraction of seconds
get_info(fr, st) ==
    IF fr = <<>> THEN Result("", Info(0, None, None, None, None))
    ELSE IF ~TruthyFloat(st.frame_duration) /\ st.fps[1] = 0
    THEN Result("ZeroDivisionError", None)
    ELSE LET hold == Val(st.frame_duration)
             duration == IF TruthyFloat(st.frame_duration)
                         THEN <<Len(fr) * hold[1], Pow10(hold[2])>>
                         ELSE <<Len(fr) * Pow10(st.fps[2]), st.fps[1]>>
         IN  Result("", Info(Len(fr), Some(fr[1].size[1]), Some(fr[1].size[2]),
                              Some(st.fps), Some(duration)))

-----------------------------------------------------------------------------
(* Reconstruction run and direct API calls: inputs *)

Image(w, h, cb, gr, prof, cont, fails) ==
    [width |-> w, height |-> h, content_bounds |-> cb, grid_region |-> gr,
     profile |-> prof, contours |-> cont, cv_fails |-> fails]

\* scanned pages: size, what the content analysis reports for them
\* (content bounds, grid region, rows/cols found by the projection
\* profiles, external contours), and whether OpenCV fails on them
ScanImages ==
    { Image(100, 80, Some(<<5, 5, 95, 75>>), Some(<<4, 4, 96, 76>>), <<2, 3>>,
            << <<6, 6, 27, 31>>, <<38, 4, 30, 34>>, <<70, 44, 22, 28>> >>, FALSE),
      Image(100, 80, None, None, <<0, 0>>, <<>>, FALSE),
      Image(60, 40, Some(<<2, 2, 58, 38>>), None, <<0, 2>>, << <<3, 3, 20, 17>> >>, TRUE),
      Image(30, 20, None, None, <<0, 0>>, <<>>, FALSE) }

NoImage == Image(0, 0, None, None, <<0, 0>>, <<>>, FALSE)

\* per-page metadata as decode_qr returns it (None: no marker found)
PageMetas ==
    { None,
      Some(SheetMetadata(1, 1, 2, 3, 0, 5, Some(<<12, 0>>), Some(26), Some(30),
                         Some(5), Some(6), None, None, None)),
      Some(SheetMetadata(1, 2, 2, 3, 0, 6, None, None, None, None, None, None, None, None)),
      Some(SheetMetadata(2, 2, 2, 2, 6, 5, None, Some(40), Some(30),
                         Some(0), Some(0), None, None, None)),
      Some(SheetMetadata(1, 1, 0, 3, 0, 0, None, None, None, None, None, None, None, None)) }

\* rows, cols of the run: unset in auto mode without cached QR settings,
\* typed in manual mode, or taken from cached QR settings
UiGrids ==
    { [manual |-> FALSE, rows |-> None, cols |-> None],
      [manual |-> TRUE, rows |-> Some(2), cols |-> Some(2)],
      [manual |-> FALSE, rows |-> Some(3), cols |-> Some(4)] }

\* pages per run
MaxPages == 2

\* grid rectangles drawn in the editor (at least 50 pixels each way; the
\* canvas does not confine them to the page)
EditorRects == {<<10, 10, 90, 70>>, <<-60, 10, 60, 95>>}
\* rows, cols typed in the editor
EditorShapes == {<<1, 2>>, <<2, 3>>}
\* the editor's excluded_frames
ExcludedSets == {{}, {1}, {0, 1}}
EditorSpacing == 10

\* page_cells of a confirmed editor: per page None or the cells computed
\* for the rectangle and shape in force when the page's grid was drawn
EditorPages ==
    {None} \cup { Some(calculate_cells(r, sh[1], sh[2], EditorSpacing)) :
                    r \in EditorRects, sh \in EditorShapes }

NoGrid == None
NoHints == Hints("none", None, None, None, None, None, None, None)

ReconIdle ==
    /\ scan_paths = 0
    /\ manual_grid_cells = None
    /\ page_counter = 0
    /\ scan_image = NoImage
    /\ hints = NoHints
    /\ grid = NoGrid
    /\ detect_invoked = FALSE
    /\ page_entry = None
    /\ frames = NotExtracted
    /\ border_crop = 0
    /\ ui_grid = [manual |-> FALSE, rows |-> None, cols |-> None]

\* no call made on the assembler yet
NoCall == [op |-> "none", args |-> <<>>, raised |-> "", value |-> None]
EmptyDict == [p \in {} |-> None]

\* MultiPageAssembler.__init__
PagesIdle ==
    /\ pages = EmptyDict
    /\ metadata = EmptyDict
    /\ returned = NoCall

\* s.startswith(prefix)
StartsWithText(s, prefix) ==
    Len(s) >= Len(prefix) /\ \A i \in 1..Len(prefix) : s[i] = prefix[i]

\* the entries of the UPSCALE menu
UpscaleChoices ==
    { <<"1", "x", " ", "(", "O", "r", "i", "g", "i", "n", "a", "l", ")">>,
      <<"2", "x">>, <<"3", "x">>, <<"4", "x">> }

\* the entries of the FORMAT menu
OutputFormats == {"MP4", "MOV", "GIF", "Image Sequence"}

\* the frame rates a run works with: the FPS field's default and 24
RunFps == {<<12, 0>>, <<24, 0>>}

upscale_factor(upscale_str) ==
    IF StartsWithText(upscale_str, <<"2", "x">>) THEN 2
    ELSE IF StartsWithText(upscale_str, <<"3", "x">>) THEN 3
    ELSE IF StartsWithText(upscale_str, <<"4", "x">>) THEN 4
    ELSE 1

\* what the worker hands to the main thread: on_recon_success(path) or
\* on_recon_error(message); upscale and format are the menu entries it read
ReconOutcome(status, message, path, upscale, format) ==
    [status |-> status, message |-> message, path |-> path, upscale |-> upscale,
     format |-> format]

NoOutcome == ReconOutcome("none", "", Path("", "", None, ""), 0, "")

\* the audio track lying on disk next to the output
AudioPath == Path("out", "take", None, "wav")
InitialFiles == [p \in {AudioPath} |-> AudioFile]

ExportIdle ==
    /\ assembler_frames = <<>>
    /\ settings = DefaultSettings
    /\ files = InitialFiles
    /\ writer = NoWriter

TailIdle ==
    /\ all_frames = <<>>
    /\ recon_outcome = NoOutcome

\* no generation run started
SheetsIdle ==
    /\ gen = [frames |-> 0, cols |-> 0, frame_size |-> <<0, 0>>]
    /\ layout_engine = [thumb_size |-> None, sheets |-> <<>>, current_sheet |-> 0, current_x |-> 0,
                        current_y |-> 0, col_count |-> 0, pasted |-> 0]
    /\ sheet_run = [frame_start |-> 0, metadata |-> <<>>]

\* no grid editor window open
EditorIdle ==
    /\ editor = None
    /\ excluded_on = <<>>
    /\ toggles = 0

\* RisoApp after __init__: nothing selected, nothing cached
CacheIdle ==
    /\ scan_selection = 0
    /\ qr_threads = EmptyDict
    /\ cached_scan_processors = <<>>
    /\ cached_qr_settings = None
    /\ ui_qr_from = None
    /\ run_used = None

\* RisoApp after __init__: the button enabled, no thread started
UiIdle ==
    /\ btn_reconstruct = "normal"
    /\ reconstruct_available = TRUE
    /\ runs = 0
    /\ after_queue = <<>>
    /\ handled = <<>>

CodecIdle ==
    /\ meta = BlankMeta
    /\ text = <<>>
    /\ damage = -1
    /\ decoded = NotCalled
    /\ parsed = NotCalled

-----------------------------------------------------------------------------
(* RisoApp: the reconstruction run (gui.py) *)

\* GridEditorWindow._confirm -> RisoApp._on_grid_editor_apply(get_result())
EditorApply ==
    /\ pc = "idle"
    /\ scan_paths > 0
    /\ \E drawn \in [1..scan_paths -> EditorPages], ex \in ExcludedSets, sh \in EditorShapes :
          /\ \E p \in 1..scan_paths : IsSet(drawn[p])
          \* self.rows, self.cols are those of the grid computed last
          /\ \E p \in 1..scan_paths : IsSet(drawn[p]) /\ Len(Val(drawn[p])) = sh[1] * sh[2]
          /\ manual_grid_cells' = get_result(drawn, ex, sh[1], sh[2], EditorSpacing)
    /\ UNCHANGED <<scan_paths, page_counter, scan_image, hints, grid, detect_invoked, page_entry,
                   frames, border_crop, ui_grid, pc>>

\* RisoApp.browse_scans: a new selection drops the manual grid
BrowseScans ==
    /\ pc = "idle"
    /\ \E selected \in 1..MaxPages : scan_paths' = selected
    /\ manual_grid_cells' = None
    /\ UNCHANGED <<page_counter, scan_image, hints, grid, detect_invoked, page_entry,
                   frames, border_crop, ui_grid, pc>>

\* start_reconstruction and run_reconstruction up to the page loop
StartReconstruction ==
    /\ pc = "idle"
    /\ scan_paths > 0
    /\ pc' = "running"
    /\ ui_grid' \in UiGrids
    /\ page_counter' = 0
    /\ UNCHANGED <<scan_paths, manual_grid_cells, scan_image, hints, grid,
                   detect_invoked, page_entry, frames, border_crop>>

\* one iteration of the page loop: choose the grid, extract the frames
ProcessPage ==
    /\ pc = "running"
    /\ page_counter < scan_paths
    /\ \E image \in ScanImages, md \in PageMetas :
          LET found == LookupManual(manual_grid_cells, page_counter)
              h == PageHints(md, ui_grid.rows, ui_grid.cols, ui_grid.manual)
              g == IF UsesManual(found) THEN manual_grid(Val(found))
                   ELSE detect(image, h)
          IN  /\ scan_image' = image
              /\ page_entry' = found
              /\ detect_invoked' = ~UsesManual(found)
              /\ hints' = IF UsesManual(found) THEN NoHints ELSE h
              /\ grid' = Some(g)
              /\ border_crop' = 5
              /\ frames' = extract_frames(image, g, 5)
    /\ page_counter' = page_counter + 1
    /\ UNCHANGED <<scan_paths, manual_grid_cells, ui_grid, pc>>

\* the page loop ends
FinishReconstruction ==
    /\ pc = "running"
    /\ page_counter = scan_paths
    /\ pc' = "done"
    /\ UNCHANGED <<scan_paths, manual_grid_cells, page_counter, scan_image, hints, grid,
                   detect_invoked, page_entry, frames, border_crop, ui_grid>>

Init == CodecIdle /\ ReconIdle /\ PagesIdle /\ ExportIdle /\ TailIdle /\ UiIdle /\ CacheIdle /\ EditorIdle /\ call_log = <<>> /\ SheetsIdle /\ pc = "idle"

Next ==
    \/ EditorApply /\ UNCHANGED <<codecVars, pageVars, exportVars, tailVars, uiVars, cacheVars, editorVars, call_log, sheetVars>>
    \/ BrowseScans /\ UNCHANGED <<codecVars, pageVars, exportVars, tailVars, uiVars, cacheVars, editorVars, call_log, sheetVars>>
    \/ StartReconstruction /\ UNCHANGED <<codecVars, pageVars, exportVars, tailVars, uiVars, cacheVars, editorVars, call_log, sheetVars>>
    \/ ProcessPage /\ UNCHANGED <<codecVars, pageVars, exportVars, tailVars, uiVars, cacheVars, editorVars, call_log, sheetVars>>
    \/ FinishReconstruction /\ UNCHANGED <<codecVars, pageVars, exportVars, tailVars, uiVars, cacheVars, editorVars, call_log, sheetVars>>

Spec == Init /\ [][Next]_vars

-----------------------------------------------------------------------------
(* Direct calls of the grid and extraction API *)

HintRows == {None, Some(2), Some(6)}
HintCols == {None, Some(2), Some(3)}
HintFrameCounts == {None, Some(0), Some(5), Some(30)}
HintCellWidths == {None, Some(0), Some(26)}
HintCellHeights == {None, Some(30)}
HintMargins == {None, Some(0), Some(5)}
HintSpacings == {None, Some(6)}
BorderCrops == {0, 2, 5}

\* rectangles (x, y, w, h) a caller may put into a DetectedGrid
LiteralCells == {<<10, 10, 30, 20>>, <<-50, 10, 40, 20>>, <<95, 70, 30, 20>>,
                 <<120, 10, 30, 20>>, <<10, 10, 8, 20>>, <<10, -40, 30, 20>>}

\* GridDetector.detect(image, method, rows, cols, frame_count, ...)
DetectCall ==
    /\ pc = "api"
    /\ ~IsSet(grid)
    /\ \E image \in ScanImages, method \in {"auto", "manual"},
          r \in HintRows, c \in HintCols, fc \in HintFrameCounts,
          cw \in HintCellWidths, ch \in HintCellHeights,
          m \in HintMargins, sp \in HintSpacings :
          LET h == Hints(method, r, c, fc, cw, ch, m, sp)
          IN  /\ scan_image' = image
              /\ hints' = h
              /\ grid' = Some(detect(image, h))
    /\ detect_invoked' = TRUE
    /\ frames' = NotExtracted
    /\ UNCHANGED <<scan_paths, manual_grid_cells, page_counter, page_entry,
                   border_crop, ui_grid, pc>>

\* a caller builds a DetectedGrid of one row from rectangles of its own
BuildGrid ==
    /\ pc = "api"
    /\ ~IsSet(grid)
    /\ \E image \in ScanImages, a \in LiteralCells, b \in LiteralCells :
          /\ scan_image' = image
          /\ grid' = Some(DetectedGrid(
                        << GridCell(a[1], a[2], a[3], a[4], 0, 0),
                           GridCell(b[1], b[2], b[3], b[4], 0, 1) >>,
                        1, 2, a[3], a[4], <<a[1], a[2]>>, 0, 0, None))
    /\ hints' = NoHints
    /\ detect_invoked' = FALSE
    /\ frames' = NotExtracted
    /\ UNCHANGED <<scan_paths, manual_grid_cells, page_counter, page_entry,
                   border_crop, ui_grid, pc>>

\* FrameExtractor(border_crop=b).extract_frames(image, grid)
ExtractCall ==
    /\ pc = "api"
    /\ IsSet(grid)
    /\ \E b \in BorderCrops :
          /\ border_crop' = b
          /\ frames' = extract_frames(scan_image, Val(grid), b)
    /\ pc' = "extracted"
    /\ UNCHANGED <<scan_paths, manual_grid_cells, page_counter, scan_image, hints,
                   grid, detect_invoked, page_entry, ui_grid>>

GridInit == CodecIdle /\ ReconIdle /\ PagesIdle /\ ExportIdle /\ TailIdle /\ UiIdle /\ CacheIdle /\ EditorIdle /\ call_log = <<>> /\ SheetsIdle /\ pc = "api"

GridNext ==
    \/ DetectCall /\ UNCHANGED <<codecVars, pageVars, exportVars, tailVars, uiVars, cacheVars, editorVars, call_log, sheetVars>>
    \/ BuildGrid /\ UNCHANGED <<codecVars, pageVars, exportVars, tailVars, uiVars, cacheVars, editorVars, call_log, sheetVars>>
    \/ ExtractCall /\ UNCHANGED <<codecVars, pageVars, exportVars, tailVars, uiVars, cacheVars, editorVars, call_log, sheetVars>>

SpecGrid == GridInit /\ [][GridNext]_vars

-----------------------------------------------------------------------------
(* Direct calls of the exact-layout strategy on full-size pages *)

MaxScale == 3

\* a printed page of the given size on which the first frame is found as a
\* contour at (150, 150) of 400 x 300
PrintedPage(w, h) ==
    Image(w, h, None, None, <<0, 0>>, << <<150, 150, 400, 300>> >>, FALSE)

\* the page of Scenario B, the page its hints add up to, that page scanned
\* 6 % too tall, and a page whose width a 4 x 540 layout fills
LayoutPages ==
    { PrintedPage(2550, 3300), PrintedPage(1990, 1920), PrintedPage(1990, 2035),
      PrintedPage(2550, 2445) }

\* the page image resized by the factor k
ScaledPage(page, k) ==
    Image(k * page.width, k * page.height, None, None, <<0, 0>>,
          [i \in 1..Len(page.contours) |->
              <<k * page.contours[i][1], k * page.contours[i][2],
                k * page.contours[i][3], k * page.contours[i][4]>>],
          FALSE)

\* rows=5, cols=4, margin=150, spacing=30 with cells of 400 x 300 and of
\* 540 x 405, with and without a frame count
LayoutHints ==
    { Hints("manual", Some(5), Some(4), fc, Some(cell[1]), Some(cell[2]), Some(150), Some(30)) :
        fc \in {None, Some(18), Some(20)}, cell \in {<<400, 300>>, <<540, 405>>} }

\* detect_from_exact_layout with the hints as its arguments
exact_layout(image, h) ==
    detect_from_exact_layout(image, Val(h.rows), Val(h.cols), h.frame_count,
                             Val(h.cell_width), Val(h.cell_height),
                             Val(h.margin), Val(h.spacing))

\* GridDetector().detect_from_exact_layout(image, rows, cols, ...)
ExactLayoutCall ==
    /\ pc = "layout"
    /\ grid' = Some(exact_layout(scan_image, hints))
    /\ pc' = "laid"
    /\ UNCHANGED <<scan_paths, manual_grid_cells, page_counter, scan_image, hints,
                   detect_invoked, frames, page_entry, border_crop, ui_grid>>

\* a page image loaded at one of the scales, and the layout of its sheet
LayoutInit ==
    /\ CodecIdle /\ PagesIdle /\ ExportIdle /\ TailIdle /\ UiIdle /\ CacheIdle /\ EditorIdle /\ call_log = <<>> /\ SheetsIdle
    /\ pc = "layout"
    /\ scan_paths = 0
    /\ manual_grid_cells = None
    /\ page_counter = 0
    /\ scan_image \in {ScaledPage(page, k) : page \in LayoutPages, k \in 1..MaxScale}
    /\ hints \in LayoutHints
    /\ grid = NoGrid
    /\ detect_invoked = FALSE
    /\ page_entry = None
    /\ frames = NotExtracted
    /\ border_crop = 0
    /\ ui_grid = [manual |-> FALSE, rows |-> None, cols |-> None]

LayoutNext == ExactLayoutCall /\ UNCHANGED <<codecVars, pageVars, exportVars, tailVars, uiVars, cacheVars, editorVars, call_log, sheetVars>>

SpecLayout == LayoutInit /\ [][LayoutNext]_vars

-----------------------------------------------------------------------------
(* Codec specifications *)

CodecInit ==
    /\ meta \in MetaSet
    /\ text = <<>>
    /\ damage = -1
    /\ decoded = NotCalled
    /\ parsed = NotCalled
    /\ ReconIdle /\ PagesIdle /\ ExportIdle /\ TailIdle /\ UiIdle /\ CacheIdle /\ EditorIdle /\ call_log = <<>> /\ SheetsIdle /\ pc = "codec"

CodecNext ==
    \/ Encode /\ UNCHANGED <<reconVars, pageVars, exportVars, tailVars, uiVars, cacheVars, editorVars, call_log, sheetVars>>
    \/ FromCompact /\ UNCHANGED <<reconVars, pageVars, exportVars, tailVars, uiVars, cacheVars, editorVars, call_log, sheetVars>>

\* round trips of undamaged payloads
SpecCodec == CodecInit /\ [][CodecNext]_vars

ScanInit ==
    /\ meta \in ScanMetaSet
    /\ text = <<>>
    /\ damage = -1
    /\ decoded = NotCalled
    /\ parsed = NotCalled
    /\ ReconIdle /\ PagesIdle /\ ExportIdle /\ TailIdle /\ UiIdle /\ CacheIdle /\ EditorIdle /\ call_log = <<>> /\ SheetsIdle /\ pc = "codec"

ScanNext ==
    \/ Encode /\ UNCHANGED <<reconVars, pageVars, exportVars, tailVars, uiVars, cacheVars, editorVars, call_log, sheetVars>>
    \/ DamageChar /\ UNCHANGED <<reconVars, pageVars, exportVars, tailVars, uiVars, cacheVars, editorVars, call_log, sheetVars>>
    \/ Truncate /\ UNCHANGED <<reconVars, pageVars, exportVars, tailVars, uiVars, cacheVars, editorVars, call_log, sheetVars>>
    \/ AppendSegment /\ UNCHANGED <<reconVars, pageVars, exportVars, tailVars, uiVars, cacheVars, editorVars, call_log, sheetVars>>
    \/ ParseMetadata /\ UNCHANGED <<reconVars, pageVars, exportVars, tailVars, uiVars, cacheVars, editorVars, call_log, sheetVars>>

\* decoding of payloads read from a scan
SpecScan == ScanInit /\ [][ScanNext]_vars

\* the values a compact text is written from: three settings of the six
\* mandatory fields, and each optional part present or absent
FieldMetas ==
    { SheetMetadata(mand[1], mand[2], mand[3], mand[4], mand[5], mand[6],
                    fps, cell[1], cell[2], ms[1], ms[2], None, None, None) :
        mand \in {<<2, 3, 4, 6, 24, 23>>, <<1, 1, 2, 3, 0, 5>>, <<10, 12, 10, 10, 900, 100>>},
        fps \in {None, Some(<<12, 0>>), Some(<<23976, 3>>), Some(<<0, 0>>)},
        cell \in {<<None, None>>, <<Some(400), Some(300)>>, <<Some(0), Some(7)>>},
        ms \in {<<None, None>>, <<Some(150), Some(30)>>, <<Some(0), Some(0)>>} }

\* the orders the optional parts of a text may come in
PartOrders ==
    { <<"c", "m", "@">>, <<"c", "@", "m">>, <<"m", "c", "@">>,
      <<"m", "@", "c">>, <<"@", "c", "m">>, <<"@", "m", "c">> }

\* the k digits of v behind a decimal point
RECURSIVE FracDigits(_, _)
FracDigits(v, k) == IF k = 0 THEN <<>> ELSE FracDigits(v \div 10, k - 1) \o <<DigitChar(v % 10)>>

\* the decimal d >= 0 written out with at least one digit behind the point
DecText(d) ==
    NatToStr(d[1] \div Pow10(d[2])) \o <<".">>
    \o (IF d[2] = 0 THEN <<"0">> ELSE FracDigits(d[1] % Pow10(d[2]), d[2]))

\* one optional part of the compact grammar, or nothing when its field is unset
PartText(x, kind) ==
    IF kind = "c" /\ IsSet(x.cell_width)
    THEN << <<"c">> \o IntToStr(Val(x.cell_width)) \o <<"x">> \o IntToStr(Val(x.cell_height)) >>
    ELSE IF kind = "m" /\ IsSet(x.margin)
    THEN << <<"m">> \o IntToStr(Val(x.margin)) \o <<"s">> \o IntToStr(Val(x.spacing)) >>
    ELSE IF kind = "@" /\ IsSet(x.fps)
    THEN << <<"@">> \o DecText(Val(x.fps)) >>
    ELSE <<>>

\* the well-formed text p{P}/{T}|g{R}x{C}|f{S}+{N} followed by the optional
\* parts in the given order
CompactText(x, order) ==
    Join(<< <<"p">> \o IntToStr(x.page_number) \o <<"/">> \o IntToStr(x.total_pages),
            <<"g">> \o IntToStr(x.rows) \o <<"x">> \o IntToStr(x.cols),
            <<"f">> \o IntToStr(x.frame_start) \o <<"+">> \o IntToStr(x.frame_count) >>
         \o PartText(x, order[1]) \o PartText(x, order[2]) \o PartText(x, order[3]),
         "|")

\* a marker payload of the compact grammar arrives, its optional parts in any order
WriteCompact ==
    /\ damage = -1
    /\ \E order \in PartOrders : text' = CompactText(meta, order)
    /\ damage' = 0
    /\ UNCHANGED <<meta, decoded, parsed>>

FieldsInit ==
    /\ meta \in FieldMetas
    /\ text = <<>>
    /\ damage = -1
    /\ decoded = NotCalled
    /\ parsed = NotCalled
    /\ ReconIdle /\ PagesIdle /\ ExportIdle /\ TailIdle /\ UiIdle /\ CacheIdle /\ EditorIdle /\ call_log = <<>> /\ SheetsIdle /\ pc = "codec"

FieldsNext ==
    \/ WriteCompact /\ UNCHANGED <<reconVars, pageVars, exportVars, tailVars, uiVars, cacheVars, editorVars, call_log, sheetVars>>
    \/ FromCompact /\ UNCHANGED <<reconVars, pageVars, exportVars, tailVars, uiVars, cacheVars, editorVars, call_log, sheetVars>>

\* decoding of well-formed payloads with their optional parts in any order
SpecFields == FieldsInit /\ [][FieldsNext]_vars

-----------------------------------------------------------------------------
(* Direct calls of the MultiPageAssembler API *)

\* largest page number a caller passes or add_page assigns
MaxPageNumber == 3
\* page_number arguments: None, or any integer from 0
PageNumbers == {None} \cup {Some(n) : n \in 0..MaxPageNumber}
\* frame lists handed to add_page; a frame is named by a string
PageFrames == {<<>>, <<"a">>, <<"b", "c">>}
\* metadata arguments: None, an empty dict, a dict with entries
PageDicts == {None, Some({}), Some({"rows", "cols"})}

\* MultiPageAssembler.add_page(frames, page_number, metadata)
AddPage ==
    /\ pc = "pages"
    /\ \E fr \in PageFrames, page_number \in PageNumbers, md \in PageDicts :
          LET n == assigned_page(pages, page_number)
          IN  /\ n <= MaxPageNumber
              /\ pages' = SetItem(pages, n, fr)
              /\ metadata' = IF IsSet(md) /\ Val(md) # {}
                             THEN SetItem(metadata, n, Val(md)) ELSE metadata
              /\ returned' = [op |-> "add_page", args |-> <<>>, raised |-> "", value |-> n]

\* MultiPageAssembler.clear
Clear ==
    /\ pc = "pages"
    /\ pages' = EmptyDict
    /\ metadata' = EmptyDict
    /\ returned' = [op |-> "clear", args |-> <<>>, raised |-> "", value |-> None]

\* MultiPageAssembler.validate_continuity()
ValidateContinuity ==
    /\ pc = "pages"
    /\ returned' = [op |-> "validate_continuity", args |-> <<>>, raised |-> "",
                    value |-> validate_continuity(pages)]
    /\ UNCHANGED <<pages, metadata>>

\* MultiPageAssembler.assemble()
Assemble ==
    /\ pc = "pages"
    /\ returned' = [op |-> "assemble", args |-> <<>>, raised |-> "", value |-> assemble(pages)]
    /\ UNCHANGED <<pages, metadata>>

\* MultiPageAssembler.get_page_count(), get_frame_count()
GetCounts ==
    /\ pc = "pages"
    /\ returned' = [op |-> "get_counts", args |-> <<>>, raised |-> "",
                    value |-> <<Cardinality(DOMAIN pages), get_frame_count(pages)>>]
    /\ UNCHANGED <<pages, metadata>>

PagesInit == CodecIdle /\ ReconIdle /\ PagesIdle /\ ExportIdle /\ TailIdle /\ UiIdle /\ CacheIdle /\ EditorIdle /\ call_log = <<>> /\ SheetsIdle /\ pc = "pages"

PagesNext ==
    \/ AddPage /\ UNCHANGED <<codecVars, reconVars, exportVars, tailVars, uiVars, cacheVars, editorVars, call_log, sheetVars>>
    \/ Clear /\ UNCHANGED <<codecVars, reconVars, exportVars, tailVars, uiVars, cacheVars, editorVars, call_log, sheetVars>>
    \/ ValidateContinuity /\ UNCHANGED <<codecVars, reconVars, exportVars, tailVars, uiVars, cacheVars, editorVars, call_log, sheetVars>>
    \/ Assemble /\ UNCHANGED <<codecVars, reconVars, exportVars, tailVars, uiVars, cacheVars, editorVars, call_log, sheetVars>>
    \/ GetCounts /\ UNCHANGED <<codecVars, reconVars, exportVars, tailVars, uiVars, cacheVars, editorVars, call_log, sheetVars>>

SpecPages == PagesInit /\ [][PagesNext]_vars

-----------------------------------------------------------------------------
(* Direct calls of the VideoAssembler API, and the end of a run.  A caller *)
(* sets an assembler up, exports once into an output directory that holds  *)
(* the audio track only, and may ask for the assembler's info.             *)

\* frame lists an assembler is built with
FrameLists ==
    { <<>>,
      <<Frame(None, 40, 30)>>,
      <<Frame(None, 40, 30), Frame(None, 20, 30), Frame(None, 40, 30)>>,
      [i \in 1..48 |-> Frame(None, 40, 30)] }

\* frame rates; hold times in seconds (None: no override); output resolutions
FpsChoices == {<<12, 0>>, <<24, 0>>, <<1, 0>>}
FrameDurations == {None, Some(<<5, 1>>), Some(<<2, 0>>), Some(<<3, 1>>)}
Resolutions == {None, Some(<<64, 64>>)}

FfmpegOutcomes == {"ok", "failed", "partial", "not_found", "error"}

\* audio_path arguments: none, the track on disk, a track that is not there
AudioArgs == {None, Some(AudioPath), Some(Path("out", "gone", None, "wav"))}

\* what a call leaves in returned; args are the arguments it was made with
CallReturn(op, args, out) == [op |-> op, args |-> args, raised |-> out.raised, value |-> out.value]

\* VideoAssembler.set_fps
SetFps ==
    /\ pc = "export"
    /\ pc' = pc
    /\ \E fps \in FpsChoices : settings' = [settings EXCEPT !.fps = fps]
    /\ returned' = [op |-> "set_fps", args |-> <<>>, raised |-> "", value |-> None]
    /\ UNCHANGED <<assembler_frames, files, writer>>

\* VideoAssembler.set_frame_duration
SetFrameDuration ==
    /\ pc = "export"
    /\ pc' = pc
    /\ \E d \in FrameDurations \ {None} :
          settings' = [settings EXCEPT !.frame_duration = d]
    /\ returned' = [op |-> "set_frame_duration", args |-> <<>>, raised |-> "", value |-> None]
    /\ UNCHANGED <<assembler_frames, files, writer>>

\* VideoAssembler.export(output_path, fps, audio_path)
ExportCall ==
    /\ pc = "export"
    /\ pc' = "exported"
    /\ \E fps_arg \in {None} \cup {Some(f) : f \in FpsChoices}, audio_path \in AudioArgs,
          opened \in BOOLEAN, ffmpeg \in FfmpegOutcomes :
          LET out == export(assembler_frames, settings, files, Path("out", "film", None, "mp4"),
                            fps_arg, audio_path, opened, ffmpeg)
          IN  /\ returned' = CallReturn("export", <<fps_arg, audio_path, opened, ffmpeg>>, out)
              /\ files' = out.files
              /\ writer' = out.writer
    /\ UNCHANGED <<assembler_frames, settings>>

\* VideoAssembler.export_gif(output_path, fps)
ExportGifCall ==
    /\ pc = "export"
    /\ pc' = "exported"
    /\ \E fps_arg \in {None} \cup {Some(f) : f \in FpsChoices} :
          LET out == export_gif(assembler_frames, settings, files,
                                Path("out", "film", None, "gif"), fps_arg)
          IN  /\ returned' = CallReturn("export_gif", <<fps_arg>>, out)
              /\ files' = out.files
    /\ UNCHANGED <<assembler_frames, settings, writer>>

\* VideoAssembler.export_image_sequence(output_dir)
ExportSequenceCall ==
    /\ pc = "export"
    /\ pc' = "exported"
    /\ LET out == export_image_sequence(assembler_frames, settings, files, "out/stills", 1)
       IN  /\ returned' = CallReturn("export_image_sequence", <<>>, out)
           /\ files' = out.files
    /\ UNCHANGED <<assembler_frames, settings, writer>>

\* VideoAssembler.get_info(), before or after an export
GetInfoCall ==
    /\ pc \in {"export", "exported"}
    /\ pc' = pc
    /\ returned' = CallReturn("get_info", <<>>, get_info(assembler_frames, settings))
    /\ UNCHANGED <<assembler_frames, settings, files, writer>>

\* sheets a scan may show: the page number its marker decodes to (None: no
\* marker), and the frames extract_frames cuts from it
SheetNumbers == {None, Some(1), Some(2)}
ExtractedSizes == {<<>>, <<<<40, 30>>>>, <<<<40, 30>>, <<38, 30>>>>}

\* one iteration of run_reconstruction's page loop as the assembly stage sees
\* it: the frames of the next scan, in the order the scans were selected,
\* are appended to all_frames; an exception in the extraction ends the run
\* in on_recon_error
GatherPage ==
    /\ pc = "gathering"
    /\ page_counter < scan_paths
    /\ \E sheet \in SheetNumbers, sizes \in ExtractedSizes, raises \in BOOLEAN :
          IF raises
          THEN /\ recon_outcome' = ReconOutcome("error", "ValueError",
                                                Path("", "", None, ""), 0, "")
               /\ pc' = "done"
               /\ UNCHANGED <<all_frames, page_counter>>
          ELSE /\ all_frames' = all_frames \o
                      [i \in 1..Len(sizes) |-> Frame(sheet, sizes[i][1], sizes[i][2])]
               /\ page_counter' = page_counter + 1
               /\ pc' = IF page_counter + 1 = scan_paths THEN "assembling" ELSE "gathering"
               /\ UNCHANGED recon_outcome
    /\ UNCHANGED <<scan_paths, manual_grid_cells, scan_image, hints, grid,
                   detect_invoked, page_entry, frames, border_crop, ui_grid>>

\* run_reconstruction after the page loop: the empty check, the assembler,
\* the upscale factor, the export chosen by the FORMAT menu.  Any exception
\* ends in on_recon_error.
AssembleAndExport ==
    /\ pc = "assembling"
    /\ pc' = "done"
    /\ \E fps \in RunFps, upscale_str \in UpscaleChoices, output_format \in OutputFormats,
          opened \in BOOLEAN :
          LET st == [DefaultSettings EXCEPT !.fps = fps]
              factor == upscale_factor(upscale_str)
              seq_dir == "out/frames"
              video_path == Path("out", "reconstructed", None,
                                 IF output_format = "MP4" THEN "mp4" ELSE "mov")
              gif_path == Path("out", "reconstructed", None, "gif")
              out == CASE output_format = "GIF" ->
                              export_gif(all_frames, st, files, gif_path, Some(fps))
                       [] output_format = "Image Sequence" ->
                              export_image_sequence(all_frames, st, files, seq_dir, 1)
                       [] OTHER ->
                              export(all_frames, st, files, video_path, Some(fps), None,
                                     opened, "not_found")
              output_path == CASE output_format = "GIF" -> gif_path
                               [] output_format = "Image Sequence" -> Path(seq_dir, "", None, "")
                               [] OTHER -> video_path
          IN  IF all_frames = <<>>
              THEN /\ recon_outcome' = ReconOutcome("error", "No frames extracted from scans.",
                                                    Path("", "", None, ""), 0, "")
                   /\ UNCHANGED exportVars
              ELSE IF factor > 1
              THEN \* VideoAssembler has no set_upscale: AttributeError
                   /\ recon_outcome' = ReconOutcome("error", "AttributeError", Path("", "", None, ""),
                                                    factor, output_format)
                   /\ assembler_frames' = all_frames
                   /\ settings' = st
                   /\ UNCHANGED <<files, writer>>
              ELSE /\ recon_outcome' = IF out.raised # ""
                                       THEN ReconOutcome("error", out.raised, Path("", "", None, ""),
                                                         factor, output_format)
                                       ELSE ReconOutcome("success", "", output_path,
                                                         factor, output_format)
                   /\ assembler_frames' = all_frames
                   /\ settings' = st
                   /\ files' = out.files
                   /\ writer' = out.writer
    /\ UNCHANGED <<scan_paths, manual_grid_cells, page_counter, scan_image, hints, grid,
                   detect_invoked, page_entry, frames, border_crop, ui_grid, all_frames>>

\* a VideoAssembler built by a caller, or a run entering its page loop
ExportInit ==
    /\ CodecIdle /\ PagesIdle /\ UiIdle /\ CacheIdle /\ EditorIdle /\ call_log = <<>> /\ SheetsIdle
    /\ manual_grid_cells = None
    /\ page_counter = 0
    /\ scan_image = NoImage
    /\ hints = NoHints
    /\ grid = NoGrid
    /\ detect_invoked = FALSE
    /\ page_entry = None
    /\ frames = NotExtracted
    /\ border_crop = 0
    /\ ui_grid = [manual |-> FALSE, rows |-> None, cols |-> None]
    /\ files = InitialFiles
    /\ writer = NoWriter
    /\ recon_outcome = NoOutcome
    /\ \/ /\ pc = "export"
          /\ scan_paths = 0
          /\ assembler_frames \in FrameLists
          /\ settings \in {VideoSettings(f, d, r) :
                             f \in FpsChoices, d \in FrameDurations, r \in Resolutions}
          /\ all_frames = <<>>
       \/ /\ pc = "gathering"
          /\ scan_paths \in 1..MaxPages
          /\ all_frames = <<>>
          /\ assembler_frames = <<>>
          /\ settings = DefaultSettings

ExportNext ==
    \/ SetFps /\ UNCHANGED <<codecVars, pageLoopVars, pages, metadata, tailVars, uiVars, cacheVars, editorVars, call_log, sheetVars>>
    \/ SetFrameDuration /\ UNCHANGED <<codecVars, pageLoopVars, pages, metadata, tailVars, uiVars, cacheVars, editorVars, call_log, sheetVars>>
    \/ ExportCall /\ UNCHANGED <<codecVars, pageLoopVars, pages, metadata, tailVars, uiVars, cacheVars, editorVars, call_log, sheetVars>>
    \/ ExportGifCall /\ UNCHANGED <<codecVars, pageLoopVars, pages, metadata, tailVars, uiVars, cacheVars, editorVars, call_log, sheetVars>>
    \/ ExportSequenceCall /\ UNCHANGED <<codecVars, pageLoopVars, pages, metadata, tailVars, uiVars, cacheVars, editorVars, call_log, sheetVars>>
    \/ GetInfoCall /\ UNCHANGED <<codecVars, pageLoopVars, pages, metadata, tailVars, uiVars, cacheVars, editorVars, call_log, sheetVars>>
    \/ GatherPage /\ UNCHANGED <<codecVars, pageVars, exportVars, uiVars, cacheVars, editorVars, call_log, sheetVars>>
    \/ AssembleAndExport /\ UNCHANGED <<codecVars, pageVars, uiVars, cacheVars, editorVars, call_log, sheetVars>>

SpecExport == ExportInit /\ [][ExportNext]_vars

-----------------------------------------------------------------------------
(* Direct calls of refine_grid_with_contours *)

\* grids a caller may hand to the refinement for the image: predictions of
\* the strategies and grids of one row built from rectangles
RefineInputs(image) ==
    {initial_grid_from_metadata(image, r, c, fc) :
        r \in {2, 6}, c \in {2, 3}, fc \in HintFrameCounts}
    \cup {detect_by_content(image)}
    \cup {DetectedGrid(<< GridCell(a[1], a[2], a[3], a[4], 0, 0),
                          GridCell(b[1], b[2], b[3], b[4], 0, 1) >>,
                       1, 2, a[3], a[4], <<a[1], a[2]>>, 0, 0, None) :
            a \in LiteralCells, b \in LiteralCells}

\* GridDetector().refine_grid_with_contours(image, grid)
RefineCall ==
    /\ pc = "refine"
    /\ returned' = [op |-> "refine_grid_with_contours", args |-> <<>>, raised |-> "",
                    value |-> refine_grid_with_contours(scan_image, Val(grid))]
    /\ pc' = "refined"
    /\ UNCHANGED <<scan_paths, manual_grid_cells, page_counter, scan_image, hints, grid,
                   detect_invoked, page_entry, frames, border_crop, ui_grid, pages, metadata>>

RefineInit ==
    /\ CodecIdle /\ PagesIdle /\ ExportIdle /\ TailIdle /\ UiIdle /\ CacheIdle /\ EditorIdle /\ call_log = <<>> /\ SheetsIdle
    /\ pc = "refine"
    /\ scan_paths = 0
    /\ manual_grid_cells = None
    /\ page_counter = 0
    /\ scan_image \in ScanImages
    /\ hints = NoHints
    /\ grid \in {Some(g) : g \in RefineInputs(scan_image)}
    /\ detect_invoked = FALSE
    /\ page_entry = None
    /\ frames = NotExtracted
    /\ border_crop = 0
    /\ ui_grid = [manual |-> FALSE, rows |-> None, cols |-> None]

RefineNext == RefineCall /\ UNCHANGED <<codecVars, exportVars, tailVars, uiVars, cacheVars, editorVars, call_log, sheetVars>>

SpecRefine == RefineInit /\ [][RefineNext]_vars

-----------------------------------------------------------------------------
(* Direct calls of decode_qr on scanned pages *)

\* every detectAndDecode call decode_qr can make
AllAttempts ==
    {Attempt(r, v) : r \in {"bottom-right", "bottom-left", "top-right", "top-left"},
                     v \in {"raw", "grayscale"}}
    \cup {Attempt("full", v) : v \in {"raw", "grayscale", "otsu", "adaptive"}}

\* what a page's marker reads as: the payload of a sheet, or a foreign code
QrPayloads == {to_compact(m) : m \in ScanMetaSet} \cup {<<"q", "r">>}

\* scanned pages: the attempts on which the detector finds the marker
QrScenes ==
    { [a \in AllAttempts |-> IF a \in found THEN payload ELSE <<>>] :
        found \in SUBSET AllAttempts, payload \in QrPayloads }

\* MetadataDecoder().decode_qr(image)
DecodeQrCall ==
    /\ pc = "qr"
    /\ \E scene \in QrScenes, cv2_available \in BOOLEAN :
          returned' = [op |-> "decode_qr", args |-> <<scene, cv2_available>>,
                       raised |-> "", value |-> decode_qr(scene, cv2_available)]
    /\ pc' = "decoded"
    /\ UNCHANGED <<pages, metadata>>

QrInit == CodecIdle /\ ReconIdle /\ PagesIdle /\ ExportIdle /\ TailIdle /\ UiIdle /\ CacheIdle /\ EditorIdle /\ call_log = <<>> /\ SheetsIdle /\ pc = "qr"

QrNext == DecodeQrCall /\ UNCHANGED <<codecVars, pageLoopVars, exportVars, tailVars, uiVars, cacheVars, editorVars, call_log, sheetVars>>

SpecQR == QrInit /\ [][QrNext]_vars

-----------------------------------------------------------------------------
(* The threads of a reconstruction: the UI thread, which runs                *)
(* start_reconstruction and the callbacks scheduled with self.after, and the *)
(* run_reconstruction thread                                                 *)

MaxRuns == 2

\* a callback scheduled by the thread of the given run
Callback(run, name) == [run |-> run, name |-> name]

\* the except clause swallowing the exception: a fault that leaves a failed
\* run without a completion callback
completion_swallow(outcome, run) ==
    IF outcome.status = "success" THEN <<Callback(run, "on_recon_success")>> ELSE <<>>

\* the last statement of the try block and the except clause of
\* run_reconstruction: self.after(0, on_recon_success) or
\* self.after(0, on_recon_error)
completion(outcome, run) ==
    IF outcome.status = "success" THEN <<Callback(run, "on_recon_success")>>
    ELSE <<Callback(run, "on_recon_error")>>

\* what the first statements of run_reconstruction may meet: the output
\* directory cannot be made, the FPS or ROWS/COLS entry is not a number
SetupOutcomes ==
    {"", "OSError", "Invalid FPS. Please enter a number.",
     "Invalid rows/columns. Please enter numbers."}

\* start_reconstruction, the command of the reconstruct button
ClickReconstruct ==
    /\ btn_reconstruct = "normal"
    /\ runs < MaxRuns
    /\ IF scan_paths = 0 \/ ~reconstruct_available
       THEN \* messagebox.showerror and return
            UNCHANGED <<btn_reconstruct, runs, pc, recon_outcome>>
       ELSE /\ btn_reconstruct' = "disabled"
            /\ runs' = runs + 1
            /\ pc' = "setup"
            /\ recon_outcome' = NoOutcome
    /\ UNCHANGED <<reconstruct_available, after_queue, handled, pageLoopVars, all_frames>>

\* run_reconstruction up to the page loop
WorkerSetup ==
    /\ pc = "setup"
    /\ \E raised \in SetupOutcomes :
          IF raised = ""
          THEN /\ pc' = "gathering"
               /\ UNCHANGED <<recon_outcome, after_queue>>
          ELSE /\ pc' = "done"
               /\ recon_outcome' = ReconOutcome("error", raised, Path("", "", None, ""), 0, "")
               /\ after_queue' = after_queue \o completion(recon_outcome', runs)
    /\ all_frames' = <<>>
    /\ page_counter' = 0
    /\ UNCHANGED <<btn_reconstruct, reconstruct_available, runs, handled, scan_paths,
                   manual_grid_cells, scan_image, hints, grid, detect_invoked, page_entry,
                   frames, border_crop, ui_grid>>

\* one iteration of the page loop in the thread: the scan gives a frame,
\* gives none, or an exception leaves the loop
WorkerPage ==
    /\ pc = "gathering"
    /\ page_counter < scan_paths
    /\ \E result \in {"frame", "nothing", "raise"} :
          IF result = "raise"
          THEN /\ recon_outcome' = ReconOutcome("error", "ValueError",
                                                Path("", "", None, ""), 0, "")
               /\ pc' = "done"
               /\ after_queue' = after_queue \o completion(recon_outcome', runs)
               /\ UNCHANGED <<all_frames, page_counter>>
          ELSE /\ all_frames' = IF result = "frame"
                                THEN Append(all_frames, Frame(None, 40, 30))
                                ELSE all_frames
               /\ page_counter' = page_counter + 1
               /\ pc' = IF page_counter + 1 = scan_paths THEN "assembling" ELSE "gathering"
               /\ UNCHANGED <<recon_outcome, after_queue>>
    /\ UNCHANGED <<btn_reconstruct, reconstruct_available, runs, handled, scan_paths,
                   manual_grid_cells, scan_image, hints, grid, detect_invoked, page_entry,
                   frames, border_crop, ui_grid>>

\* the thread after the page loop: the QR notification when cached QR
\* settings were applied, assembly and export, the completion callback
WorkerAssemble ==
    /\ AssembleAndExport
    /\ \E qr_settings_applied \in BOOLEAN :
          after_queue' = after_queue
              \o (IF qr_settings_applied /\ all_frames # <<>>
                  THEN <<Callback(runs, "_show_qr_notification")>> ELSE <<>>)
              \o completion(recon_outcome', runs)
    /\ UNCHANGED <<btn_reconstruct, reconstruct_available, runs, handled>>

\* the UI thread runs the oldest callback scheduled with self.after(0, ...);
\* on_recon_success and on_recon_error enable the button
RunCallback ==
    /\ after_queue # <<>>
    /\ after_queue' = Tail(after_queue)
    /\ IF Head(after_queue).name \in {"on_recon_success", "on_recon_error"}
       THEN /\ btn_reconstruct' = "normal"
            /\ handled' = Append(handled, Head(after_queue))
       ELSE UNCHANGED <<btn_reconstruct, handled>>
    /\ UNCHANGED <<reconstruct_available, runs, reconVars, tailVars>>

\* the window is up: scans selected or not, the reconstruct package there or not
WorkerInit ==
    /\ CodecIdle /\ PagesIdle /\ ExportIdle /\ TailIdle
    /\ pc = "ui"
    /\ scan_paths \in {0, 1, 2}
    /\ manual_grid_cells = None
    /\ page_counter = 0
    /\ scan_image = NoImage
    /\ hints = NoHints
    /\ grid = NoGrid
    /\ detect_invoked = FALSE
    /\ page_entry = None
    /\ frames = NotExtracted
    /\ border_crop = 0
    /\ ui_grid = [manual |-> FALSE, rows |-> None, cols |-> None]
    /\ btn_reconstruct = "normal"
    /\ reconstruct_available \in BOOLEAN
    /\ runs = 0
    /\ after_queue = <<>>
    /\ handled = <<>>
    /\ CacheIdle /\ EditorIdle /\ call_log = <<>> /\ SheetsIdle

WorkerNext ==
    \/ ClickReconstruct /\ UNCHANGED <<codecVars, pageVars, exportVars, cacheVars, editorVars, call_log, sheetVars>>
    \/ WorkerSetup /\ UNCHANGED <<codecVars, pageVars, exportVars, cacheVars, editorVars, call_log, sheetVars>>
    \/ WorkerPage /\ UNCHANGED <<codecVars, pageVars, exportVars, cacheVars, editorVars, call_log, sheetVars>>
    \/ WorkerAssemble /\ UNCHANGED <<codecVars, pageVars, cacheVars, editorVars, call_log, sheetVars>>
    \/ RunCallback /\ UNCHANGED <<codecVars, pageVars, exportVars, cacheVars, editorVars, call_log, sheetVars>>

\* the thread is scheduled and the Tk main loop runs its callbacks
SpecWorker ==
    /\ WorkerInit /\ [][WorkerNext]_vars
    /\ WF_vars(WorkerSetup /\ UNCHANGED <<codecVars, pageVars, exportVars, cacheVars, editorVars, call_log, sheetVars>>)
    /\ WF_vars(WorkerPage /\ UNCHANGED <<codecVars, pageVars, exportVars, cacheVars, editorVars, call_log, sheetVars>>)
    /\ WF_vars(WorkerAssemble /\ UNCHANGED <<codecVars, pageVars, cacheVars, editorVars, call_log, sheetVars>>)
    /\ WF_vars(RunCallback /\ UNCHANGED <<codecVars, pageVars, exportVars, cacheVars, editorVars, call_log, sheetVars>>)

-----------------------------------------------------------------------------
(* Properties of the compact codec, checked under SpecCodec and SpecScan *)

\* C1 (as stated): decoding an encoded SheetMetadata gives back every
\* populated field, mandatory or optional, with exactly its original value.
RoundTripAllFields ==
    decoded.tag # "idle" =>
        /\ decoded.tag = "meta"
        /\ \A f \in MandatoryFields : decoded.md[f] = meta[f]
        /\ \A f \in OptionalFields : IsSet(meta[f]) => decoded.md[f] = meta[f]

\* C1 (amended): decoding an encoded SheetMetadata gives back the six
\* mandatory fields exactly; cell_width and cell_height exactly when both are
\* populated and non-zero, and unset otherwise; margin and spacing exactly
\* when both are populated, and unset otherwise; fps rounded to one decimal
\* place when it is populated and non-zero, and unset otherwise; video_hash,
\* original_resolution and created_at always unset.
RoundTripEncodedFields ==
    decoded.tag # "idle" =>
        /\ decoded.tag = "meta"
        /\ \A f \in MandatoryFields : decoded.md[f] = meta[f]
        /\ IF TruthyInt(meta.cell_width) /\ TruthyInt(meta.cell_height)
           THEN /\ decoded.md.cell_width = meta.cell_width
                /\ decoded.md.cell_height = meta.cell_height
           ELSE /\ decoded.md.cell_width = None
                /\ decoded.md.cell_height = None
        /\ IF IsSet(meta.margin) /\ IsSet(meta.spacing)
           THEN /\ decoded.md.margin = meta.margin
                /\ decoded.md.spacing = meta.spacing
           ELSE /\ decoded.md.margin = None
                /\ decoded.md.spacing = None
        /\ IF IsSet(meta.fps) /\ Val(meta.fps)[1] > 0
           THEN decoded.md.fps = Some(NormDec(RoundTenths(Val(meta.fps)), 1))
           ELSE decoded.md.fps = None
        /\ decoded.md.video_hash = None
        /\ decoded.md.original_resolution = None
        /\ decoded.md.created_at = None

\* a round trip of a sheet with every optional field populated: the layout
\* fields (a margin of 0 among them) come back, the frame rate 23.976 comes
\* back as 24.0, the video hash does not come back
RoundTripWitness ==
    /\ decoded.tag = "meta"
    /\ meta.cell_width = Some(400) /\ decoded.md.cell_width = Some(400)
    /\ meta.cell_height = Some(300) /\ decoded.md.cell_height = Some(300)
    /\ meta.margin = Some(0) /\ decoded.md.margin = Some(0)
    /\ meta.spacing = Some(30) /\ decoded.md.spacing = Some(30)
    /\ meta.fps = Some(<<23976, 3>>) /\ decoded.md.fps = Some(<<24, 0>>)
    /\ IsSet(meta.video_hash) /\ ~IsSet(decoded.md.video_hash)
    /\ IsSet(meta.original_resolution) /\ IsSet(meta.created_at)

\* C2: _parse_metadata returns a SheetMetadata or None for every payload
\* (empty, cut short, misread, extended); no exception reaches its caller.
DecodeTotal ==
    parsed.tag # "idle" => parsed.tag \in {"meta", "none"}

\* a damaged payload on which from_compact raises and _parse_metadata
\* returns None
DecodeTotalWitness ==
    /\ parsed.tag = "none"
    /\ damage > 0
    /\ StartsWith(text, "p") /\ Contains(text, "|")
    /\ from_compact(text).tag = "raise"

\* C3: a SheetMetadata is returned only for text of the compact grammar
\* p{int}/{int}|g{int}x{int}|f{int}+{int} followed only by segments
\* c{int}x{int}, m{int}s{int}, @{decimal}; every other text decodes to None.
DecodeFailsClosed ==
    LET IsInt(s) ==
            LET body == IF Len(s) >= 1 /\ s[1] = "-" THEN Tail(s) ELSE s
            IN  IsDigits(body)
        IsDecimal(s) ==
            LET body == IF Len(s) >= 1 /\ s[1] = "-" THEN Tail(s) ELSE s
                pieces == Split(body, ".")
            IN  \/ IsDigits(body)
                \/ Len(pieces) = 2 /\ IsDigits(pieces[1]) /\ IsDigits(pieces[2])
        Pair(seg, prefix, sep) ==
            /\ StartsWith(seg, prefix)
            /\ LET fields == Split(Tail(seg), sep)
               IN  Len(fields) = 2 /\ IsInt(fields[1]) /\ IsInt(fields[2])
        Optional(seg) ==
            \/ Pair(seg, "c", "x")
            \/ Pair(seg, "m", "s")
            \/ StartsWith(seg, "@") /\ IsDecimal(Tail(seg))
        Conforms(s) ==
            LET segs == Split(s, "|")
            IN  /\ Len(segs) >= 3
                /\ Pair(segs[1], "p", "/")
                /\ Pair(segs[2], "g", "x")
                /\ Pair(segs[3], "f", "+")
                /\ \A i \in 4..Len(segs) : Optional(segs[i])
    IN  parsed.tag = "meta" => Conforms(text)

\* C4: every optional field that is unset in a SheetMetadata is unset in the
\* value decoded from its encoding.
UnsetStaysUnset ==
    decoded.tag # "idle" =>
        /\ decoded.tag = "meta"
        /\ \A f \in OptionalFields : ~IsSet(meta[f]) => ~IsSet(decoded.md[f])

\* a round trip of a sheet with unset fps and margin beside a set spacing and
\* set cell dimensions: the unset ones, and the spacing that is not encoded
\* without a margin, come back unset
UnsetStaysUnsetWitness ==
    /\ decoded.tag = "meta"
    /\ ~IsSet(meta.fps) /\ ~IsSet(decoded.md.fps)
    /\ ~IsSet(meta.margin) /\ ~IsSet(decoded.md.margin)
    /\ IsSet(meta.spacing)
    /\ IsSet(meta.cell_width) /\ IsSet(decoded.md.cell_width)
    /\ ~IsSet(meta.video_hash) /\ ~IsSet(decoded.md.video_hash)

-----------------------------------------------------------------------------
(* Properties of grid resolution and extraction, checked under SpecGrid *)

\* C5: every grid GridDetector.detect returns, whatever the hints, has
\* rows * cols >= frame_count when frame_count is set.
GridCellCount ==
    detect_invoked /\ IsSet(grid) /\ IsSet(Val(grid).frame_count) =>
        Val(grid).rows * Val(grid).cols >= Val(Val(grid).frame_count)

\* C6: extract_frames does not raise on any cell geometry and returns one
\* frame per cell of get_cells_in_order(), in that order; the box of every
\* cropped frame satisfies 0 <= left < right <= width, 0 <= top < bottom <= height.
ExtractSafe ==
    pc = "extracted" =>
        LET cs == get_cells_in_order(Val(grid))
        IN  /\ ~frames.raised
            /\ Len(frames.frames) = Len(cs)
            /\ \A i \in 1..Len(cs) :
                  LET fr == frames.frames[i]
                  IN  /\ fr.row = cs[i].row /\ fr.col = cs[i].col
                      /\ fr.kind \in {"crop", "placeholder"}
                      /\ fr.kind = "crop" =>
                            /\ 0 <= fr.box[1] /\ fr.box[1] < fr.box[3]
                            /\ fr.box[3] <= scan_image.width
                            /\ 0 <= fr.box[2] /\ fr.box[2] < fr.box[4]
                            /\ fr.box[4] <= scan_image.height

\* an extraction with a border inset in which one cell lies beyond the
\* image's right edge and the other is cropped
ExtractSafeWitness ==
    /\ pc = "extracted"
    /\ border_crop > 0
    /\ ~frames.raised
    /\ Len(frames.frames) = 2
    /\ frames.frames[1].kind = "placeholder"
    /\ Val(grid).cells[1].x >= scan_image.width
    /\ frames.frames[2].kind = "crop"
    /\ frames.frames[2].size[1] > 1

\* C7: the frame of a cell whose rectangle, after the border inset and the
\* clamping to the image, has no width or no height, or which lies beyond
\* one of the image's four edges, is the 10x10 placeholder.
PlaceholderSubstitution ==
    pc = "extracted" /\ ~frames.raised =>
        LET cs == get_cells_in_order(Val(grid))
            inset == IF border_crop > 0 THEN border_crop ELSE 0
        IN  \A i \in (1..Len(cs)) \cap (1..Len(frames.frames)) :
                LET c == cs[i]
                    l == Max(0, c.x + inset)
                    t == Max(0, c.y + inset)
                    r == Min(scan_image.width, c.x + c.width - inset)
                    b == Min(scan_image.height, c.y + c.height - inset)
                    degenerate == r <= l \/ b <= t
                    outside == \/ c.x + c.width <= 0 \/ c.y + c.height <= 0
                               \/ c.x >= scan_image.width \/ c.y >= scan_image.height
                IN  degenerate \/ outside =>
                        /\ frames.frames[i].kind = "placeholder"
                        /\ frames.frames[i].size = <<10, 10>>

\* C11 (as stated): whatever the method argument, detect lays the grid out by
\* the exact-layout strategy when rows, cols, cell_width, cell_height, margin
\* and spacing are all supplied, by the percentage estimate when only rows
\* and cols are supplied, and by content analysis when no hint is supplied.
StrategyByHints ==
    detect_invoked /\ IsSet(grid) =>
        LET h == hints
            layout == {h.cell_width, h.cell_height, h.margin, h.spacing}
        IN  /\ IsSet(h.rows) /\ IsSet(h.cols) /\ (\A v \in layout : IsSet(v)) =>
                  grid = Some(detect_from_exact_layout(
                                  scan_image, Val(h.rows), Val(h.cols), h.frame_count,
                                  Val(h.cell_width), Val(h.cell_height),
                                  Val(h.margin), Val(h.spacing)))
            /\ IsSet(h.rows) /\ IsSet(h.cols) /\ (\A v \in layout : ~IsSet(v)) =>
                  grid = Some(detect_from_metadata(scan_image, Val(h.rows), Val(h.cols),
                                                   h.frame_count))
            /\ ~IsSet(h.rows) /\ ~IsSet(h.cols) /\ (\A v \in layout : ~IsSet(v)) =>
                  grid = Some(detect_by_content(scan_image))

\* C11 (amended): with method "manual" and non-zero rows and cols, detect uses
\* the exact-layout strategy when cell_width and cell_height are supplied and
\* non-zero and margin and spacing are supplied (0 included), and the
\* percentage estimate otherwise; with any other method, or without rows or
\* cols, it uses content analysis whatever the other hints are.
StrategyByMethodAndHints ==
    detect_invoked /\ IsSet(grid) =>
        LET h == hints
            shaped == h.method = "manual" /\ TruthyInt(h.rows) /\ TruthyInt(h.cols)
            exact == /\ TruthyInt(h.cell_width) /\ TruthyInt(h.cell_height)
                     /\ IsSet(h.margin) /\ IsSet(h.spacing)
        IN  /\ shaped /\ exact =>
                  grid = Some(detect_from_exact_layout(
                                  scan_image, Val(h.rows), Val(h.cols), h.frame_count,
                                  Val(h.cell_width), Val(h.cell_height),
                                  Val(h.margin), Val(h.spacing)))
            /\ shaped /\ ~exact =>
                  grid = Some(detect_from_metadata(scan_image, Val(h.rows), Val(h.cols),
                                                   h.frame_count))
            /\ ~shaped => grid = Some(detect_by_content(scan_image))

\* a manual-mode call with the full layout and a margin of 0, resolved by the
\* exact-layout strategy to a grid the percentage estimate would not give
StrategyWitness ==
    /\ detect_invoked /\ IsSet(grid)
    /\ hints.method = "manual"
    /\ TruthyInt(hints.rows) /\ TruthyInt(hints.cols)
    /\ TruthyInt(hints.cell_width) /\ TruthyInt(hints.cell_height)
    /\ hints.margin = Some(0) /\ IsSet(hints.spacing)
    /\ Val(grid).origin = <<0, 0>>
    /\ grid # Some(detect_from_metadata(scan_image, Val(hints.rows), Val(hints.cols),
                                        hints.frame_count))

\* the predictions the three strategies can make for the image and the hints
Predictions(image, h) ==
    {detect_by_content(image)}
    \cup (IF TruthyInt(h.rows) /\ TruthyInt(h.cols)
          THEN {initial_grid_from_metadata(image, Val(h.rows), Val(h.cols), h.frame_count)}
          ELSE {})
    \cup (IF /\ TruthyInt(h.rows) /\ TruthyInt(h.cols)
             /\ TruthyInt(h.cell_width) /\ TruthyInt(h.cell_height)
             /\ IsSet(h.margin) /\ IsSet(h.spacing)
          THEN {initial_grid_from_exact_layout(image, Val(h.rows), Val(h.cols),
                                               h.frame_count, Val(h.cell_width),
                                               Val(h.cell_height), Val(h.margin),
                                               Val(h.spacing))}
          ELSE {})

\* C24: the grid GridDetector.detect returns is, whichever of the three
\* strategies made the prediction, that prediction passed through
\* refine_grid_with_contours.
SharedRefinement ==
    detect_invoked /\ IsSet(grid) =>
        \E prediction \in Predictions(scan_image, hints) :
            Val(grid) = refine_grid_with_contours(scan_image, prediction)

-----------------------------------------------------------------------------
(* Properties of MultiPageAssembler, checked under SpecPages *)

\* C12: after any sequence of add_page and clear calls, validate_continuity()
\* returns (valid, missing) where missing is the ascending list of the
\* integers between the smallest and the largest stored page number that are
\* not stored and valid is true iff missing is empty; pages {1, 3} give
\* (False, [2]) and no pages give (True, []); the call does not raise and
\* leaves the stored pages as they were.
ContinuityReport ==
    /\ [](returned.op = "validate_continuity" =>
            /\ returned.raised = ""
            /\ LET stored == DOMAIN pages
                   valid == returned.value[1]
                   missing == returned.value[2]
                   gaps == {n \in 0..MaxPageNumber :
                              /\ n \notin stored
                              /\ \E lo \in stored : lo < n
                              /\ \E hi \in stored : n < hi}
               IN  /\ valid \in BOOLEAN
                   /\ \A i \in 1..Len(missing) - 1 : missing[i] < missing[i + 1]
                   /\ {missing[i] : i \in 1..Len(missing)} = gaps
                   /\ valid <=> missing = <<>>
                   /\ stored = {1, 3} => returned.value = <<FALSE, <<2>> >>
                   /\ stored = {} => returned.value = <<TRUE, <<>> >>)
    /\ [][returned'.op = "validate_continuity" =>
            pages' = pages /\ metadata' = metadata]_vars

\* pages 1 and 3 are stored and validate_continuity has reported page 2 missing
ContinuityWitness ==
    /\ DOMAIN pages = {1, 3}
    /\ returned.op = "validate_continuity"
    /\ returned.value = <<FALSE, <<2>> >>

-----------------------------------------------------------------------------
(* Properties of VideoAssembler and of the end of a run, checked under *)
(* SpecExport                                                          *)

\* C13: export, export_gif and export_image_sequence each raise an error when
\* the assembler's frame list is empty and leave the file system as it was
\* (no file or directory created or written); a run that has gone through
\* all its pages without extracting a frame ends in an error, not in success.
ZeroFramesIsError ==
    /\ [][(/\ pc = "export" /\ pc' = "exported"
           /\ assembler_frames = <<>>) =>
              /\ returned'.op \in {"export", "export_gif", "export_image_sequence"}
              /\ returned'.raised = "ValueError"
              /\ files' = files]_vars
    /\ [](pc = "done" /\ page_counter = scan_paths /\ all_frames = <<>> =>
              /\ recon_outcome.status = "error"
              /\ files = InitialFiles)

\* export_image_sequence was called on an assembler without frames: it has
\* raised and the output directory was not made
ZeroFramesWitness ==
    /\ returned.op = "export_image_sequence"
    /\ assembler_frames = <<>>
    /\ returned.raised = "ValueError"
    /\ Path("out/stills", "", None, "") \notin DOMAIN files

\* C14: in a run over scanned pages whose markers all decode to metadata, the
\* frames handed to the assembler are grouped by page number, all frames of
\* page n before all frames of page n + 1, in whatever order the scans were
\* selected.
PageNumberOrder ==
    /\ recon_outcome.status = "success"
    /\ \A i \in 1..Len(assembler_frames) : IsSet(assembler_frames[i].sheet)
    => \A i, j \in 1..Len(assembler_frames) :
          i < j => Val(assembler_frames[i].sheet) <= Val(assembler_frames[j].sheet)

\* C15: get_info() of an assembler holding N >= 1 frames reports a duration
\* of N / fps seconds when no frame-duration override is set (48 frames at
\* fps 24: 2.0) and of N * frame_duration seconds when one is set; with no
\* frames it reports frame_count 0 and does not raise.
ReportedDuration ==
    returned.op = "get_info" =>
        LET n == Len(assembler_frames)
            fps == Frac(settings.fps)
        IN  /\ returned.raised = ""
            /\ returned.value.frame_count = n
            /\ n >= 1 /\ ~IsSet(settings.frame_duration) =>
                  \* duration * fps = N
                  LET d == Val(returned.value.duration)
                  IN  d[1] * fps[1] = n * d[2] * fps[2]
            /\ n >= 1 /\ IsSet(settings.frame_duration) =>
                  \* duration = N * frame_duration
                  LET d == Val(returned.value.duration)
                      hold == Frac(Val(settings.frame_duration))
                  IN  d[1] * hold[2] = n * hold[1] * d[2]
            /\ n = 48 /\ settings.fps = <<24, 0>> /\ ~IsSet(settings.frame_duration) =>
                  FracEq(Val(returned.value.duration), <<2, 1>>)

\* get_info has reported 2 seconds for 48 frames at 24 frames per second
ReportedDurationWitness ==
    /\ returned.op = "get_info"
    /\ Len(assembler_frames) = 48
    /\ settings.fps = <<24, 0>>
    /\ ~IsSet(settings.frame_duration)
    /\ returned.raised = ""
    /\ FracEq(Val(returned.value.duration), <<2, 1>>)

\* C16: in the video export writes, each source frame is on screen for
\* 1/fps seconds without a frame-duration override and for frame_duration
\* seconds with one: the number of times the frame is written divided by the
\* frame rate handed to the writer is that hold time.
FrameHoldTime ==
    returned.op = "export" /\ returned.raised = "" =>
        LET video == files[returned.value]
            rate == video.rate
            fps_arg == returned.args[1]
            fps == Frac(IF TruthyFloat(fps_arg) THEN Val(fps_arg) ELSE settings.fps)
            hold == IF IsSet(settings.frame_duration)
                    THEN Frac(Val(settings.frame_duration))
                    ELSE <<fps[2], fps[1]>>
        IN  \A i \in 1..Len(video.shown) :
               FracEq(<<video.shown[i].times * rate[2], rate[1]>>, hold)

\* C17: a run with at least one extracted frame and 2x, 3x or 4x chosen in
\* the UPSCALE menu ends in success with every frame written enlarged by that
\* factor; with 1x every frame is written at its extracted size.  (A video
\* writer that cannot be opened is the environment's failure, not the run's.)
UpscaleApplied ==
    recon_outcome.upscale >= 1 /\ recon_outcome.message # "RuntimeError" =>
        /\ recon_outcome.status = "success"
        /\ \A p \in DOMAIN files :
              \A k \in 1..Len(files[p].shown) :
                 \E i \in 1..Len(assembler_frames) :
                    files[p].shown[k].picture.area =
                       <<recon_outcome.upscale * assembler_frames[i].size[1],
                         recon_outcome.upscale * assembler_frames[i].size[2]>>

\* C18: export called with an audio track that is on disk, the video written:
\* whatever ffmpeg does, export does not raise and returns the path of a
\* video that is on disk, with the audio track when ffmpeg succeeded and
\* without it otherwise.
AudioBestEffort ==
    /\ returned.op = "export"
    /\ assembler_frames # <<>>
    /\ returned.args[2] = Some(AudioPath)
    /\ writer.opened
    => /\ returned.raised = ""
       /\ returned.value \in DOMAIN files
       /\ files[returned.value].kind = "video"
       /\ Len(files[returned.value].shown) = Len(assembler_frames)
       /\ files[returned.value].audio <=> returned.args[4] = "ok"

\* ffmpeg broke off and left a broken output behind: export has returned the
\* path of the video without audio, which is on disk
AudioBestEffortWitness ==
    /\ returned.op = "export"
    /\ returned.args[2] = Some(AudioPath)
    /\ returned.args[4] = "partial"
    /\ returned.raised = ""
    /\ returned.value \in DOMAIN files
    /\ ~files[returned.value].audio
    /\ Path("out", "film_with_audio", None, "mp4") \in DOMAIN files

\* C26: in a video export with a frame-duration override, every source frame
\* is written max(1, round(fps * frame_duration)) times: the integer nearest
\* to fps * frame_duration, and once when that is 0.
RepeatCountRounded ==
    /\ returned.op = "export" /\ returned.raised = ""
    /\ TruthyFloat(settings.frame_duration)
    => LET fps_arg == returned.args[1]
           fps == Frac(IF TruthyFloat(fps_arg) THEN Val(fps_arg) ELSE settings.fps)
           hold == Frac(Val(settings.frame_duration))
           num == fps[1] * hold[1]
           den == fps[2] * hold[2]
           shown == files[returned.value].shown
       IN  \A i \in 1..Len(shown) :
              IF 2 * num < den THEN shown[i].times = 1
              ELSE /\ shown[i].times >= 1
                   /\ 2 * Abs(shown[i].times * den - num) <= den

-----------------------------------------------------------------------------
(* Properties of the reconstruction run, checked under Spec *)

\* C8: get_cells_in_order() of the grid of every processed page (resolved by
\* any strategy, refined, or built from a manual override) is in strictly
\* increasing (row, col) order.
ReadingOrder ==
    IsSet(grid) =>
        LET cs == get_cells_in_order(Val(grid))
        IN  \A i \in 1..(Len(cs) - 1) :
                \/ cs[i].row < cs[i + 1].row
                \/ cs[i].row = cs[i + 1].row /\ cs[i].col < cs[i + 1].col

\* a processed page whose grid has several rows and several columns, with a
\* cell moved by the contour refinement
ReadingOrderWitness ==
    /\ IsSet(grid)
    /\ detect_invoked
    /\ Val(grid).rows >= 2 /\ Val(grid).cols >= 2
    /\ Len(get_cells_in_order(Val(grid))) >= 4
    /\ \E i \in 1..Len(Val(grid).cells) :
          Val(grid).cells[i].width # Val(grid).cell_width

\* C9: with frame_count set, get_cells_in_order() returns exactly
\* min(rows * cols, frame_count) cells, the first ones in reading order, and
\* the page's frame list has that length; with frame_count unset it returns
\* all cells.
FrameCountCap ==
    IsSet(grid) =>
        LET g == Val(grid)
            cs == get_cells_in_order(g)
        IN  IF IsSet(g.frame_count)
            THEN /\ Len(cs) = Min(g.rows * g.cols, Val(g.frame_count))
                 /\ cs = SubSeq(SortedCells(g.cells), 1, Len(cs))
                 /\ ~frames.raised => Len(frames.frames) = Len(cs)
            ELSE Len(cs) = Len(g.cells)

\* C10: for every processed page that has an entry in the manual override
\* list, whatever the number of cells in the entry, the grid is built from
\* the entry's rectangles alone and GridDetector.detect is not invoked.
ManualSupersedes ==
    pc = "running" /\ page_counter > 0 /\ IsSet(page_entry) =>
        /\ ~detect_invoked
        /\ grid = Some(manual_grid(Val(page_entry)))

-----------------------------------------------------------------------------
(* Properties of the exact-layout strategy, checked under SpecLayout *)

\* the exact-layout hints of Scenario B, with any frame count
ScenarioBHints(h) ==
    /\ h.rows = Some(5) /\ h.cols = Some(4)
    /\ h.cell_width = Some(400) /\ h.cell_height = Some(300)
    /\ h.margin = Some(150) /\ h.spacing = Some(30)

\* C19: for a 2550 x 3300 page image and the exact-layout hints rows=5,
\* cols=4, cell_width=400, cell_height=300, margin=150, spacing=30, the grid
\* the exact-layout strategy lays out has its origin and its first cell at
\* exactly (150, 150) and a horizontal pitch (cell width + horizontal
\* spacing) of exactly 430.
ScenarioBLayout ==
    /\ pc = "laid"
    /\ scan_image.width = 2550 /\ scan_image.height = 3300
    /\ ScenarioBHints(hints)
    => /\ Val(grid).origin = <<150, 150>>
       /\ Val(grid).cells[1].x = 150 /\ Val(grid).cells[1].y = 150
       /\ Val(grid).cell_width + Val(grid).spacing_x = 430

\* |value - k * base| <= 2 % of k * base
WithinTwoPercent(value, k, base) == 100 * Abs(value - k * base) <= 2 * k * base

\* C20: with identical hints, the grid laid out for a page image whose width
\* and height are both k times those of another page image has a cell width,
\* a cell height and an origin that are k times those laid out for the other
\* page, within 2 %.
ScaleInvariance ==
    pc = "laid" =>
        \A page \in LayoutPages, k \in 1..MaxScale :
           scan_image = ScaledPage(page, k) =>
              LET base == exact_layout(page, hints)
                  g == Val(grid)
              IN  /\ WithinTwoPercent(g.cell_width, k, base.cell_width)
                  /\ WithinTwoPercent(g.cell_height, k, base.cell_height)
                  /\ WithinTwoPercent(g.origin[1], k, base.origin[1])
                  /\ WithinTwoPercent(g.origin[2], k, base.origin[2])

-----------------------------------------------------------------------------
(* Properties of from_compact on well-formed texts, checked under SpecFields *)

\* the text of Scenario A
ScenarioAText ==
    <<"p", "2", "/", "3", "|", "g", "4", "x", "6", "|", "f", "2", "4", "+", "2", "3", "|",
      "c", "4", "0", "0", "x", "3", "0", "0", "|", "m", "1", "5", "0", "s", "3", "0", "|",
      "@", "1", "2", ".", "0">>

\* C21: a well-formed compact text p{P}/{T}|g{R}x{C}|f{S}+{N} followed by
\* any of c{W}x{H}, m{M}s{Sp}, @{F} in any order decodes to a SheetMetadata
\* with exactly these eleven values, a part that is absent leaving its
\* fields unset; "p2/3|g4x6|f24+23|c400x300|m150s30|@12.0" gives 2, 3, 4, 6,
\* 24, 23, 400, 300, 150, 30, 12.0.
FieldDecoding ==
    decoded.tag # "idle" =>
        /\ decoded.tag = "meta"
        /\ \A f \in MandatoryFields : decoded.md[f] = meta[f]
        /\ \A f \in {"fps", "cell_width", "cell_height", "margin", "spacing"} :
              decoded.md[f] = meta[f]
        /\ text = ScenarioAText =>
              decoded.md = SheetMetadata(2, 3, 4, 6, 24, 23, Some(<<12, 0>>), Some(400),
                                         Some(300), Some(150), Some(30), None, None, None)

\* the fields of Scenario A written with the frame rate first and the cell
\* size last have been decoded to the values of Scenario A
FieldDecodingWitness ==
    /\ text = SubSeq(ScenarioAText, 1, 17) \o SubSeq(ScenarioAText, 35, 39) \o <<"|">>
               \o SubSeq(ScenarioAText, 27, 34) \o SubSeq(ScenarioAText, 18, 25)
    /\ decoded.tag = "meta"
    /\ decoded.md = SheetMetadata(2, 3, 4, 6, 24, 23, Some(<<12, 0>>), Some(400),
                                  Some(300), Some(150), Some(30), None, None, None)

-----------------------------------------------------------------------------
(* Properties of the threads of a reconstruction, checked under SpecWorker *)

\* the completion callbacks of the run among the callbacks of a sequence
CompletionsOf(callbacks, run) ==
    {i \in 1..Len(callbacks) :
        /\ callbacks[i].run = run
        /\ callbacks[i].name \in {"on_recon_success", "on_recon_error"}}

-----------------------------------------------------------------------------
(* Properties of decode_qr, checked under SpecQR *)

\* the order the claim gives to the detector calls
MarkerScanOrder ==
    << <<"bottom-right", "raw">>, <<"bottom-right", "grayscale">>,
       <<"bottom-left", "raw">>, <<"bottom-left", "grayscale">>,
       <<"top-right", "raw">>, <<"top-right", "grayscale">>,
       <<"top-left", "raw">>, <<"top-left", "grayscale">>,
       <<"full", "raw">>, <<"full", "grayscale">>, <<"full", "otsu">>,
       <<"full", "adaptive">> >>

\* C23: decode_qr tries the four corner regions first, the bottom-right
\* corner before the others, each corner as cut out and then in grayscale,
\* and the whole image only when no corner gave a payload, in the order raw,
\* grayscale, Otsu threshold, adaptive threshold; the first attempt that
\* gives a payload is the last attempt made, and its payload is the one
\* parsed.
ScanOrder ==
    returned.op = "decode_qr" /\ returned.args[2] =>
        LET scene == returned.args[1]
            log == returned.value.attempts
            n == Len(log)
        IN  /\ n >= 1 /\ n <= Len(MarkerScanOrder)
            /\ log = SubSeq(MarkerScanOrder, 1, n)
            /\ \A i \in 1..(n - 1) : scene[log[i]] = <<>>
            /\ n < Len(MarkerScanOrder) => scene[log[n]] # <<>>
            /\ returned.value.data = scene[log[n]]
            /\ returned.value.metadata =
                  (IF scene[log[n]] # <<>> THEN parse_metadata(scene[log[n]])
                   ELSE ReturnedNone)

\* the marker is readable in the top-left corner in grayscale and on the
\* whole image: decode_qr has made the eight corner attempts up to that one
\* and none on the whole image
ScanOrderWitness ==
    /\ returned.op = "decode_qr"
    /\ returned.args[2]
    /\ {a \in AllAttempts : returned.args[1][a] # <<>>}
          = {<<"top-left", "grayscale">>, <<"full", "raw">>, <<"full", "otsu">>}
    /\ Len(returned.value.attempts) = 8
    /\ returned.value.attempts[8] = <<"top-left", "grayscale">>
    /\ returned.value.metadata.tag = "meta"

-----------------------------------------------------------------------------
(* Properties of refine_grid_with_contours, checked under SpecRefine *)

\* the contour box is one the refinement may take for the cell: its centre
\* lies in the cell's search window, its area is between half and one and a
\* half times the cell's, and it overlaps the cell
AcceptedFor(cell, box) ==
    LET pad_x == (cell.width * 2) \div 10
        pad_y == (cell.height * 2) \div 10
        cx == box[1] + box[3] \div 2
        cy == box[2] + box[4] \div 2
    IN  /\ cx >= Max(0, cell.x - pad_x) /\ cx <= Max(0, cell.x - pad_x) + cell.width + 2 * pad_x
        /\ cy >= Max(0, cell.y - pad_y) /\ cy <= Max(0, cell.y - pad_y) + cell.height + 2 * pad_y
        /\ cell.width * cell.height < 2 * box[3] * box[4]
        /\ 2 * box[3] * box[4] < 3 * cell.width * cell.height
        /\ Min(cell.x + cell.width, box[1] + box[3]) > Max(cell.x, box[1])
        /\ Min(cell.y + cell.height, box[2] + box[4]) > Max(cell.y, box[2])

\* C25: refine_grid_with_contours returns a grid with the rows, cols,
\* frame_count, number of cells and per-cell (row, col) labels of its input;
\* each returned cell is the predicted cell unchanged or the bounding box of
\* an accepted contour; the input grid is left as it was; when the image
\* operations raise, the returned grid is the input grid.
RefinementPreserves ==
    /\ [](returned.op = "refine_grid_with_contours" =>
            LET g == Val(grid)
                r == returned.value
            IN  /\ r.rows = g.rows /\ r.cols = g.cols /\ r.frame_count = g.frame_count
                /\ Len(r.cells) = Len(g.cells)
                /\ \A i \in 1..Len(g.cells) :
                      /\ r.cells[i].row = g.cells[i].row
                      /\ r.cells[i].col = g.cells[i].col
                      /\ \/ r.cells[i] = g.cells[i]
                         \/ \E k \in 1..Len(scan_image.contours) :
                               LET box == scan_image.contours[k]
                               IN  /\ AcceptedFor(g.cells[i], box)
                                   /\ r.cells[i] = GridCell(box[1], box[2], box[3], box[4],
                                                            g.cells[i].row, g.cells[i].col)
                /\ scan_image.cv_fails => r = g)
    /\ [][returned'.op = "refine_grid_with_contours" => grid' = grid]_vars

\* a grid of which the refinement has replaced one cell by a contour box and
\* kept another
RefinementPreservesWitness ==
    /\ returned.op = "refine_grid_with_contours"
    /\ ~scan_image.cv_fails
    /\ \E i, j \in 1..Len(Val(grid).cells) :
          /\ returned.value.cells[i] # Val(grid).cells[i]
          /\ returned.value.cells[j] = Val(grid).cells[j]

-----------------------------------------------------------------------------
(* The scan selection, its background QR detection and the cache
   (gui.py, browse_scans, _detect_qr_metadata_async, run_reconstruction) *)

\* selections the file dialog makes in one session
MaxSelections == 2

\* files one selection can hold
MaxFiles == 2

\* the local variables of one _detect_qr_metadata_async thread
QrThread(at, file_paths, detected) == [at |-> at, files |-> file_paths, detected |-> detected]

\* the processors list of a detection thread: one ScanProcessor per file that loaded
Processors(selection, loaded) == [i \in 1..loaded |-> selection]

\* RisoApp.browse_scans with the reconstruct package there: a cancelled dialog
\* changes nothing; a selection replaces scan_paths, clears the cache and the
\* manual grid, and starts a detection thread on a copy of the file list
BrowseScansDetect ==
    /\ pc = "cache"
    /\ scan_selection < MaxSelections
    /\ \E selected \in 0..MaxFiles :
          IF selected = 0
          THEN UNCHANGED <<scan_paths, manual_grid_cells, cacheVars, editorVars, call_log, sheetVars>>
          ELSE /\ scan_paths' = selected
               /\ scan_selection' = scan_selection + 1
               /\ cached_scan_processors' = <<>>
               /\ cached_qr_settings' = None
               /\ manual_grid_cells' = None
               /\ qr_threads' = IF reconstruct_available
                                THEN (scan_selection + 1 :> QrThread("scanning", selected, FALSE)) @@ qr_threads
                                ELSE qr_threads
               /\ UNCHANGED <<ui_qr_from, run_used>>
    /\ UNCHANGED <<page_counter, scan_image, hints, grid, detect_invoked, page_entry,
                   frames, border_crop, ui_grid, pc, uiVars>>

\* _detect_qr_metadata_async from its start to line 977: the loop over its own
\* file list (a file that fails to load is skipped), then
\* self.cached_scan_processors = processors; an exception outside the
\* per-file try ends the thread with nothing written
DetectQrScan ==
    /\ \E t \in DOMAIN qr_threads :
          /\ qr_threads[t].at = "scanning"
          /\ \/ \E loaded \in 0..qr_threads[t].files, found \in BOOLEAN :
                   /\ found => loaded > 0
                   /\ cached_scan_processors' = Processors(t, loaded)
                   /\ qr_threads' = (t :> QrThread("caching", qr_threads[t].files, found)) @@ qr_threads
             \/ /\ qr_threads' = (t :> QrThread("ended", qr_threads[t].files, FALSE)) @@ qr_threads
                /\ UNCHANGED cached_scan_processors
    /\ UNCHANGED <<scan_selection, cached_qr_settings, ui_qr_from, run_used, reconVars, uiVars>>

\* _detect_qr_metadata_async, lines 978 to 988: self.cached_qr_settings =
\* detected_settings, and with settings detected
\* self.after(0, _apply_detected_settings)
DetectQrCache ==
    /\ \E t \in DOMAIN qr_threads :
          /\ qr_threads[t].at = "caching"
          /\ cached_qr_settings' = IF qr_threads[t].detected THEN Some(t) ELSE None
          /\ after_queue' = IF qr_threads[t].detected
                            THEN Append(after_queue, Callback(t, "_apply_detected_settings"))
                            ELSE after_queue
          /\ qr_threads' = (t :> QrThread("ended", qr_threads[t].files, qr_threads[t].detected)) @@ qr_threads
    /\ UNCHANGED <<scan_selection, cached_scan_processors, ui_qr_from, run_used, reconVars,
                   btn_reconstruct, reconstruct_available, runs, handled>>

\* the UI thread running a scheduled _apply_detected_settings: the detected
\* rows, columns and fps go into the fields
ApplyDetectedSettings ==
    /\ after_queue # <<>>
    /\ Head(after_queue).name = "_apply_detected_settings"
    /\ after_queue' = Tail(after_queue)
    /\ ui_qr_from' = Some([from |-> Head(after_queue).run, at |-> scan_selection])
    /\ UNCHANGED <<scan_selection, qr_threads, cached_scan_processors, cached_qr_settings,
                   run_used, reconVars, btn_reconstruct, reconstruct_available, runs, handled>>

\* run_reconstruction, lines 1084 to 1107: the cached processors are used when
\* there are some and as many as scan_paths, fresh ones are made otherwise;
\* the cached settings are used when there are some
ReadCache ==
    /\ pc = "cache"
    /\ scan_paths > 0
    /\ run_used' = Some([selection |-> scan_selection,
                         processors |-> IF /\ cached_scan_processors # <<>>
                                           /\ Len(cached_scan_processors) = scan_paths
                                        THEN cached_scan_processors
                                        ELSE Processors(scan_selection, scan_paths),
                         settings |-> cached_qr_settings])
    /\ UNCHANGED <<scan_selection, qr_threads, cached_scan_processors, cached_qr_settings,
                   ui_qr_from, reconVars, uiVars>>

\* the window is up and nothing selected yet
CacheInit ==
    /\ CodecIdle /\ PagesIdle /\ ExportIdle /\ TailIdle /\ CacheIdle /\ EditorIdle /\ call_log = <<>> /\ SheetsIdle
    /\ pc = "cache"
    /\ scan_paths = 0
    /\ manual_grid_cells = None
    /\ page_counter = 0
    /\ scan_image = NoImage
    /\ hints = NoHints
    /\ grid = None
    /\ detect_invoked = FALSE
    /\ page_entry = None
    /\ frames = NotExtracted
    /\ border_crop = 0
    /\ ui_grid = [manual |-> FALSE, rows |-> None, cols |-> None]
    /\ btn_reconstruct = "normal"
    /\ reconstruct_available \in BOOLEAN
    /\ runs = 0
    /\ after_queue = <<>>
    /\ handled = <<>>

CacheNext ==
    \/ BrowseScansDetect /\ UNCHANGED <<codecVars, pageVars, exportVars, tailVars, editorVars, call_log, sheetVars>>
    \/ DetectQrScan /\ UNCHANGED <<codecVars, pageVars, exportVars, tailVars, editorVars, call_log, sheetVars>>
    \/ DetectQrCache /\ UNCHANGED <<codecVars, pageVars, exportVars, tailVars, editorVars, call_log, sheetVars>>
    \/ ApplyDetectedSettings /\ UNCHANGED <<codecVars, pageVars, exportVars, tailVars, editorVars, call_log, sheetVars>>
    \/ ReadCache /\ UNCHANGED <<codecVars, pageVars, exportVars, tailVars, editorVars, call_log, sheetVars>>

SpecCache == CacheInit /\ [][CacheNext]_vars

\* C27: whatever interleaving of selections, detection threads and a run, the
\* cached processors and the cached settings were made from the selection that
\* scan_paths now holds, the settings put into the UI come from a selection
\* that was the current one when they were put there, and what a run took from
\* the cache was made from the selection the run works on.
NoStaleCache ==
    /\ \A i \in 1..Len(cached_scan_processors) : cached_scan_processors[i] = scan_selection
    /\ IsSet(cached_qr_settings) => Val(cached_qr_settings) = scan_selection
    /\ IsSet(ui_qr_from) => Val(ui_qr_from).from = Val(ui_qr_from).at
    /\ IsSet(run_used) =>
          /\ \A i \in 1..Len(Val(run_used).processors) :
                Val(run_used).processors[i] = Val(run_used).selection
          /\ Val(run_used).settings \in {None, Some(Val(run_used).selection)}

-----------------------------------------------------------------------------
(* A session of the grid editor window (grid_editor.py) *)

\* exclude/include toggles in one session
MaxToggles == 2

\* rows, cols in the entries during a session
SessionShapes == {<<1, 2>>, <<1, 3>>}

\* the size of the pages shown in the editor
EditorPageSize == <<100, 80>>

\* the clamp of _update_preview: max(0, min(v, limit))
ClampTo(v, limit) == Max(0, Min(v, limit))

\* _update_preview: the indices that get a thumbnail in the preview strip (a
\* cell with nothing of it on the page gets none), which are the frames
\* _on_preview_click can hit
preview_frame_positions(result_cells) ==
    IF ~IsSet(result_cells) THEN {}
    ELSE { i \in 0..(Len(Val(result_cells)) - 1) :
             LET cell == Val(result_cells)[i + 1]
             IN  /\ ClampTo(cell[3], EditorPageSize[1]) > ClampTo(cell[1], EditorPageSize[1])
                 /\ ClampTo(cell[4], EditorPageSize[2]) > ClampTo(cell[2], EditorPageSize[2]) }

\* GridEditorWindow._save_current_page_grid
save_current_page_grid(ed) ==
    IF IsSet(ed.result_cells)
    THEN [ed EXCEPT !.page_cells[ed.current_page + 1] = ed.result_cells]
    ELSE ed

\* _save_current_page_grid, the step to the other page, _load_page
go_to_page(ed, page_index) ==
    LET saved == save_current_page_grid(ed)
    IN  [saved EXCEPT !.current_page = page_index,
                      !.result_cells = saved.page_cells[page_index + 1]]

\* GridEditorWindow._finalize_grid at the end of a drag with the draw tool:
\* rows and cols from the entries, the cells of the drawn rectangle
FinalizeGrid ==
    /\ pc = "editor"
    /\ \E rect \in EditorRects, sh \in SessionShapes :
          editor' = [editor EXCEPT !.rows = sh[1], !.cols = sh[2],
                        !.result_cells = Some(calculate_cells(rect, sh[1], sh[2], EditorSpacing))]
    /\ UNCHANGED <<excluded_on, toggles, reconVars, returned>>

\* GridEditorWindow._prev_page
PrevPage ==
    /\ pc = "editor"
    /\ editor.current_page > 0
    /\ editor' = go_to_page(editor, editor.current_page - 1)
    /\ UNCHANGED <<excluded_on, toggles, reconVars, returned>>

\* GridEditorWindow._next_page
NextPage ==
    /\ pc = "editor"
    /\ editor.current_page < editor.scan_images - 1
    /\ editor' = go_to_page(editor, editor.current_page + 1)
    /\ UNCHANGED <<excluded_on, toggles, reconVars, returned>>

\* GridEditorWindow._on_preview_click: a click on a thumbnail, with or
\* without Shift, or a click beside the thumbnails
PreviewClick ==
    /\ pc = "editor"
    /\ \/ \E frame_idx \in preview_frame_positions(editor.result_cells), shift_held \in BOOLEAN :
             editor' = [editor EXCEPT
                 !.selected_frames =
                     IF shift_held
                     THEN IF IsSet(editor.last_selected_frame)
                          THEN @ \cup (Min(Val(editor.last_selected_frame), frame_idx)
                                        ..Max(Val(editor.last_selected_frame), frame_idx))
                          ELSE IF frame_idx \in @ THEN @ \ {frame_idx} ELSE @ \cup {frame_idx}
                     ELSE {frame_idx},
                 !.last_selected_frame = Some(frame_idx)]
       \/ editor' = [editor EXCEPT !.selected_frames = {}, !.last_selected_frame = None]
    /\ UNCHANGED <<excluded_on, toggles, reconVars, returned>>

\* GridEditorWindow._toggle_exclude_frame: nothing selected, nothing done;
\* all selected excluded already, they are included again; else they are
\* excluded.  excluded_on follows the toggle for the page shown.
ToggleExcludeFrame ==
    /\ pc = "editor"
    /\ toggles < MaxToggles
    /\ editor.selected_frames # {}
    /\ LET all_excluded == editor.selected_frames \subseteq editor.excluded_frames
       IN  /\ editor' = [editor EXCEPT !.excluded_frames =
                            IF all_excluded THEN @ \ editor.selected_frames
                            ELSE @ \cup editor.selected_frames]
           /\ excluded_on' = [excluded_on EXCEPT ![editor.current_page + 1] =
                            IF all_excluded THEN @ \ editor.selected_frames
                            ELSE @ \cup editor.selected_frames]
    /\ toggles' = toggles + 1
    /\ UNCHANGED <<reconVars, returned>>

\* GridEditorWindow._confirm: the page shown is saved; with no page holding a
\* grid a warning is shown and the window stays; else get_result goes to
\* RisoApp._on_grid_editor_apply
Confirm ==
    /\ pc = "editor"
    /\ LET saved == save_current_page_grid(editor)
           result == get_result(saved.page_cells, saved.excluded_frames, saved.rows,
                                saved.cols, EditorSpacing)
       IN  IF \A p \in 1..Len(saved.page_cells) : ~IsSet(saved.page_cells[p])
           THEN /\ editor' = saved
                /\ UNCHANGED <<pc, manual_grid_cells, returned>>
           ELSE /\ editor' = [saved EXCEPT !.confirmed = TRUE]
                /\ returned' = [op |-> "get_result", args |-> <<>>, raised |-> "", value |-> result]
                /\ manual_grid_cells' = result
                /\ pc' = "confirmed"
    /\ UNCHANGED <<excluded_on, toggles, scan_paths, page_counter, scan_image, hints, grid,
                   detect_invoked, page_entry, frames, border_crop, ui_grid>>

\* GridEditorWindow.__init__ without existing grid data: the first page
\* shown, no grid on any page, nothing selected, nothing excluded
EditorInit ==
    /\ CodecIdle /\ PagesIdle /\ ExportIdle /\ TailIdle /\ UiIdle /\ CacheIdle
    /\ pc = "editor"
    /\ scan_paths \in 1..MaxPages
    /\ manual_grid_cells = None
    /\ page_counter = 0
    /\ scan_image = NoImage
    /\ hints = NoHints
    /\ grid = None
    /\ detect_invoked = FALSE
    /\ page_entry = None
    /\ frames = NotExtracted
    /\ border_crop = 0
    /\ ui_grid = [manual |-> FALSE, rows |-> None, cols |-> None]
    /\ \E sh \in SessionShapes :
          editor = [scan_images |-> scan_paths, current_page |-> 0,
                    page_cells |-> [p \in 1..scan_paths |-> None], result_cells |-> None,
                    rows |-> sh[1], cols |-> sh[2], selected_frames |-> {},
                    last_selected_frame |-> None, excluded_frames |-> {},
                    confirmed |-> FALSE]
    /\ excluded_on = [p \in 1..scan_paths |-> {}]
    /\ toggles = 0
    /\ call_log = <<>> /\ SheetsIdle

EditorNext ==
    \/ FinalizeGrid /\ UNCHANGED <<codecVars, pages, metadata, exportVars, tailVars, uiVars, cacheVars, call_log, sheetVars>>
    \/ PrevPage /\ UNCHANGED <<codecVars, pages, metadata, exportVars, tailVars, uiVars, cacheVars, call_log, sheetVars>>
    \/ NextPage /\ UNCHANGED <<codecVars, pages, metadata, exportVars, tailVars, uiVars, cacheVars, call_log, sheetVars>>
    \/ PreviewClick /\ UNCHANGED <<codecVars, pages, metadata, exportVars, tailVars, uiVars, cacheVars, call_log, sheetVars>>
    \/ ToggleExcludeFrame /\ UNCHANGED <<codecVars, pages, metadata, exportVars, tailVars, uiVars, cacheVars, call_log, sheetVars>>
    \/ Confirm /\ UNCHANGED <<codecVars, pages, metadata, exportVars, tailVars, uiVars, cacheVars, call_log, sheetVars>>

SpecEditor == EditorInit /\ [][EditorNext]_vars

\* C28: once the editor is confirmed, every page of the result leaves out
\* exactly the cells excluded while that page was shown: its excluded_indices
\* are those cells, and its cells are all the others of the page, in order.
ExclusionPerPage ==
    pc = "confirmed" =>
       \A k \in 1..Len(Val(returned.value)) :
          LET entry == Val(returned.value)[k]
              cells == Val(editor.page_cells[entry.page_index + 1])
              excluded_here == {i \in excluded_on[entry.page_index + 1] : i < Len(cells)}
          IN  /\ entry.excluded_indices = excluded_here
              /\ entry.cells = CellTuples(cells, excluded_here, 1)

-----------------------------------------------------------------------------
(* Direct calls of the VideoAssembler page API (assembler.py) *)

\* add_frames and add_page calls on one assembler
MaxCalls == 3

\* VideoAssembler.assemble_pages appending to the frame list instead of
\* replacing it: a fault that keeps the constructor's and add_frames' frames
assemble_pages_extend(frames_now, pgs) == frames_now \o assemble(pgs)

\* VideoAssembler.assemble_pages: self.frames = self._page_assembler.assemble()
assemble_pages(frames_now, pgs) == assemble(pgs)

\* VideoAssembler.add_frames(frames)
VideoAddFrames ==
    /\ pc = "video_pages"
    /\ Len(call_log) < MaxCalls
    /\ \E fr \in PageFrames :
          /\ assembler_frames' = assembler_frames \o fr
          /\ call_log' = Append(call_log, [op |-> "add_frames", frames |-> fr, page_number |-> None])
          /\ returned' = [op |-> "add_frames", args |-> <<fr>>, raised |-> "", value |-> None]
    /\ UNCHANGED <<pages, metadata, settings, files, writer>>

\* VideoAssembler.add_page(frames, page_number) ->
\* MultiPageAssembler.add_page(frames, page_number), no metadata
VideoAddPage ==
    /\ pc = "video_pages"
    /\ Len(call_log) < MaxCalls
    /\ \E fr \in PageFrames, page_number \in PageNumbers :
          LET n == assigned_page(pages, page_number)
          IN  /\ n <= MaxPageNumber
              /\ pages' = SetItem(pages, n, fr)
              /\ call_log' = Append(call_log, [op |-> "add_page", frames |-> fr,
                                               page_number |-> page_number])
              /\ returned' = [op |-> "add_page", args |-> <<fr, page_number>>, raised |-> "",
                              value |-> n]
    /\ UNCHANGED <<metadata, exportVars>>

\* VideoAssembler.assemble_pages()
VideoAssemblePages ==
    /\ pc = "video_pages"
    /\ assembler_frames' = assemble_pages(assembler_frames, pages)
    /\ returned' = [op |-> "assemble_pages", args |-> <<>>, raised |-> "", value |-> None]
    /\ UNCHANGED <<pages, metadata, settings, files, writer, call_log, sheetVars>>

\* VideoAssembler(frames): self.frames = frames or [], a new page assembler
VideoPagesInit ==
    /\ CodecIdle /\ ReconIdle /\ PagesIdle /\ TailIdle /\ UiIdle /\ CacheIdle /\ EditorIdle
    /\ pc = "video_pages"
    /\ assembler_frames \in PageFrames
    /\ settings = DefaultSettings
    /\ files = InitialFiles
    /\ writer = NoWriter
    /\ call_log = <<>> /\ SheetsIdle

VideoPagesNext ==
    \/ VideoAddFrames /\ UNCHANGED <<codecVars, reconVars, tailVars, uiVars, cacheVars, editorVars, sheetVars>>
    \/ VideoAddPage /\ UNCHANGED <<codecVars, reconVars, tailVars, uiVars, cacheVars, editorVars, sheetVars>>
    \/ VideoAssemblePages /\ UNCHANGED <<codecVars, reconVars, tailVars, uiVars, cacheVars, editorVars, sheetVars>>

SpecVideoPages == VideoPagesInit /\ [][VideoPagesNext]_vars

\* the page numbers in use after the first n calls of the log, going by the
\* rule of the claim: the number given, or one more than the largest so far
RECURSIVE NumbersAfter(_, _)
NumbersAfter(log, n) ==
    IF n = 0 THEN {}
    ELSE LET before == NumbersAfter(log, n - 1)
             call == log[n]
         IN  IF call.op # "add_page" THEN before
             ELSE IF IsSet(call.page_number) THEN before \cup {Val(call.page_number)}
             ELSE before \cup {1 + (IF before = {} THEN 0
                                    ELSE CHOOSE p \in before : \A q \in before : q <= p)}

\* the page number the n-th call of the log (an add_page) stores under
NumberOf(log, n) ==
    IF IsSet(log[n].page_number) THEN Val(log[n].page_number)
    ELSE CHOOSE p \in NumbersAfter(log, n) : \A q \in NumbersAfter(log, n) : q <= p

\* the frame list most recently added for page number p
LastAdded(log, p) ==
    LET adds == {n \in 1..Len(log) : log[n].op = "add_page" /\ NumberOf(log, n) = p}
        last == CHOOSE n \in adds : \A m \in adds : m <= n
    IN  log[last].frames

\* the frames of the pages numbered below p
RECURSIVE FramesBelow(_, _, _)
FramesBelow(log, numbers, p) ==
    IF {q \in numbers : q < p} = {} THEN 0
    ELSE LET q == CHOOSE r \in numbers : r < p
         IN  Len(LastAdded(log, q)) + FramesBelow(log, numbers \ {q}, p)

-----------------------------------------------------------------------------
(* A generation run: LayoutEngine.create_sheets (layout.py) and the sheet
   loop of RisoApp.run_process (gui.py) *)

\* frames one run extracts from the video
MaxFrames == 8

\* the COLUMNS choices the runs are made with (the button offers 1 to 10)
ColumnChoices == {1, 2, 3}

\* width, height of the video's frames: landscape, portrait, square
FrameSizes == {<<1920, 1080>>, <<1080, 1920>>, <<1000, 1000>>}

\* LayoutEngine(paper_size="LETTER", dpi=300): int(8.5 * 300), int(11 * 300),
\* int(0.5 * 300), int(0.1 * 300)
LetterEngine == [page_width |-> 2550, page_height |-> 3300, margin |-> 150, spacing |-> 30]

\* the reconstruction side of the window, which a generation run leaves alone
pagesOfRun == <<scan_paths, manual_grid_cells, page_counter, scan_image, hints, grid,
                detect_invoked, page_entry, frames, border_crop, ui_grid>>

\* the thumbnail size create_sheets computes from the columns and the first frame
thumbnail_size(columns, first_frame) ==
    LET printable_width == LetterEngine.page_width - 2 * LetterEngine.margin
        total_spacing_x == (columns - 1) * LetterEngine.spacing
        thumb_width == IntTrunc(printable_width - total_spacing_x, columns)
        thumb_height == IntTrunc(thumb_width * first_frame[2], first_frame[1])
    IN  <<thumb_width, thumb_height>>

\* run_process: max_rows_per_page from the printable height and the thumbnail
\* size, 6 without a thumbnail size
max_rows_per_page(thumb_size) ==
    IF IsSet(thumb_size)
    THEN LET printable_height == LetterEngine.page_height - 2 * LetterEngine.margin
         IN  IntTrunc(printable_height + LetterEngine.spacing,
                      Val(thumb_size)[2] + LetterEngine.spacing)
    ELSE 6

\* create_sheets up to its loop: the thumbnail size, a blank sheet, the
\* cursor at the margin
CreateSheetsBegin ==
    /\ pc = "generate"
    /\ layout_engine' = [thumb_size |-> Some(thumbnail_size(gen.cols, gen.frame_size)),
                         sheets |-> <<>>, current_sheet |-> 0,
                         current_x |-> LetterEngine.margin, current_y |-> LetterEngine.margin,
                         col_count |-> 0, pasted |-> 0]
    /\ pc' = "pasting"
    /\ UNCHANGED <<gen, sheet_run, pagesOfRun>>

\* one round of the loop of create_sheets: a new sheet when the row would
\* reach below the bottom margin, the paste, the cursor moved on
PasteFrame ==
    /\ pc = "pasting"
    /\ layout_engine.pasted < gen.frames
    /\ LET thumb == Val(layout_engine.thumb_size)
           new_sheet == layout_engine.current_y + thumb[2]
                            > LetterEngine.page_height - LetterEngine.margin
           sheets == IF new_sheet THEN Append(layout_engine.sheets, layout_engine.current_sheet)
                     ELSE layout_engine.sheets
           on_sheet == IF new_sheet THEN 0 ELSE layout_engine.current_sheet
           x == IF new_sheet THEN LetterEngine.margin ELSE layout_engine.current_x
           y == IF new_sheet THEN LetterEngine.margin ELSE layout_engine.current_y
           col_count == (IF new_sheet THEN 0 ELSE layout_engine.col_count) + 1
           row_full == col_count >= gen.cols
       IN  layout_engine' = [layout_engine EXCEPT
               !.sheets = sheets,
               !.current_sheet = on_sheet + 1,
               !.col_count = IF row_full THEN 0 ELSE col_count,
               !.current_x = IF row_full THEN LetterEngine.margin
                             ELSE x + thumb[1] + LetterEngine.spacing,
               !.current_y = IF row_full THEN y + thumb[2] + LetterEngine.spacing ELSE y,
               !.pasted = @ + 1]
    /\ UNCHANGED <<gen, sheet_run, pc, pagesOfRun>>

\* the end of create_sheets: the last sheet is appended
CreateSheetsEnd ==
    /\ pc = "pasting"
    /\ layout_engine.pasted = gen.frames
    /\ layout_engine' = [layout_engine EXCEPT !.sheets = Append(@, layout_engine.current_sheet)]
    /\ pc' = "sheets"
    /\ UNCHANGED <<gen, sheet_run, pagesOfRun>>

\* one round of the sheet loop of run_process with the QR encoder there:
\* the metadata of sheet i, then frame_start moved on
WriteSheetMetadata ==
    /\ pc = "sheets"
    /\ Len(sheet_run.metadata) < Len(layout_engine.sheets)
    /\ LET i == Len(sheet_run.metadata)
           frames_per_full_sheet == max_rows_per_page(layout_engine.thumb_size) * gen.cols
           remaining_frames == gen.frames - sheet_run.frame_start
           frames_on_sheet == Min(frames_per_full_sheet, remaining_frames)
           actual_rows == (frames_on_sheet + gen.cols - 1) \div gen.cols
       IN  sheet_run' = [frame_start |-> sheet_run.frame_start + frames_on_sheet,
                         metadata |-> Append(sheet_run.metadata,
                             [page_number |-> i + 1,
                              total_pages |-> Len(layout_engine.sheets),
                              rows |-> actual_rows, cols |-> gen.cols,
                              frame_start |-> sheet_run.frame_start,
                              frame_count |-> frames_on_sheet,
                              cell_width |-> Val(layout_engine.thumb_size)[1],
                              cell_height |-> Val(layout_engine.thumb_size)[2],
                              margin |-> LetterEngine.margin,
                              spacing |-> LetterEngine.spacing])]
    /\ UNCHANGED <<gen, layout_engine, pc, pagesOfRun>>

\* run_process with the frames extracted: at least one frame, the columns chosen
SheetsInit ==
    /\ CodecIdle /\ PagesIdle /\ ExportIdle /\ TailIdle /\ UiIdle /\ CacheIdle /\ EditorIdle
    /\ call_log = <<>>
    /\ pc = "generate"
    /\ scan_paths = 0
    /\ manual_grid_cells = None
    /\ page_counter = 0
    /\ scan_image = NoImage
    /\ hints = NoHints
    /\ grid = NoGrid
    /\ detect_invoked = FALSE
    /\ page_entry = None
    /\ frames = NotExtracted
    /\ border_crop = 0
    /\ ui_grid = [manual |-> FALSE, rows |-> None, cols |-> None]
    /\ gen \in [frames : 1..MaxFrames, cols : ColumnChoices, frame_size : FrameSizes]
    /\ layout_engine = [thumb_size |-> None, sheets |-> <<>>, current_sheet |-> 0,
                        current_x |-> 0, current_y |-> 0, col_count |-> 0, pasted |-> 0]
    /\ sheet_run = [frame_start |-> 0, metadata |-> <<>>]

SheetsNext ==
    \/ CreateSheetsBegin /\ UNCHANGED <<codecVars, pageVars, exportVars, tailVars, uiVars, cacheVars, editorVars, call_log>>
    \/ PasteFrame /\ UNCHANGED <<codecVars, pageVars, exportVars, tailVars, uiVars, cacheVars, editorVars, call_log>>
    \/ CreateSheetsEnd /\ UNCHANGED <<codecVars, pageVars, exportVars, tailVars, uiVars, cacheVars, editorVars, call_log>>
    \/ WriteSheetMetadata /\ UNCHANGED <<codecVars, pageVars, exportVars, tailVars, uiVars, cacheVars, editorVars, call_log>>

SpecSheets == SheetsInit /\ [][SheetsNext]_vars

\* the frames create_sheets placed on the first n sheets
RECURSIVE PlacedOn(_, _)
PlacedOn(sheets, n) == IF n = 0 THEN 0 ELSE sheets[n] + PlacedOn(sheets, n - 1)

\* C30: when the sheet loop has run, the metadata of sheet i has the number of
\* frames create_sheets placed on sheet i as frame_count and the number placed
\* on the sheets before it as frame_start; frame_count is at most rows x cols,
\* and the frame_counts add up to the number of frames.
MetadataMatchesLayout ==
    (pc = "sheets" /\ Len(sheet_run.metadata) = Len(layout_engine.sheets)) =>
       /\ \A i \in 1..Len(layout_engine.sheets) :
             LET md == sheet_run.metadata[i]
             IN  /\ md.page_number = i
                 /\ md.frame_count = layout_engine.sheets[i]
                 /\ md.frame_start = PlacedOn(layout_engine.sheets, i - 1)
                 /\ md.frame_count <= md.rows * md.cols
       /\ PlacedOn([i \in 1..Len(sheet_run.metadata) |-> sheet_run.metadata[i].frame_count],
                   Len(sheet_run.metadata)) = gen.frames

====
